---- MODULE Spec2Model ----
(***************************************************************************)
(* State-machine model of the MEDCoupling tutorial scripts.                *)
(*                                                                         *)
(* Every tutorial is a straight-line script driving the medcoupling        *)
(* library; the only concurrency is the process pool of Multiprocessing.py.*)
(* Each script has its own program counter; a specification runs one       *)
(* script (SpecMP, SpecDA, SpecRM) or one of the three scripts that write  *)
(* MED files (SpecIO); the variables of the other scripts stay idle.       *)
(*                                                                         *)
(* Lengths are exact integers.  Multiprocessing.py: the unit is half a     *)
(* cell width, 1/(2*nbCells).  DataArray.py: the unit is 0.5.              *)
(***************************************************************************)
EXTENDS Integers, Sequences, FiniteSets, TLC

VARIABLES
  \* ---- Multiprocessing.py
  mp_pc,        \* position of the parent process in the script
  m,            \* source mesh (global, line 47)
  m2,           \* target mesh (global, line 51-54)
  matSeq,       \* line 67
  nbProc,       \* line 73
  workToDo,     \* line 101-106
  loop_i,       \* loop variable i of line 102
  wGlobals,     \* per pool process: its own copy of the globals m, m2
  running,      \* per pool process: the task it executes, 0 when idle
  taskState,    \* per task: "queued", "running", "done", "failed"
  attempts,     \* per task: how many times a worker started it
  results,      \* per task: the value sent back to the parent
  doneOrder,    \* task ids in completion order
  subMatrices,  \* line 113
  matPar,       \* line 129
  matDelta,     \* line 130
  \* ---- DataArray.py
  da_pc,
  data_arr,           \* line 93-118
  data_arr_pol,       \* line 125
  data_arr_cart,      \* line 128
  translations,       \* line 158
  squares,            \* line 168-172
  squares_da,         \* line 179
  common_tuples,      \* line 203
  common_tuples_indices,
  group_slices,       \* the (j, k) pairs sliced by the loop of line 223-224
  o2n,                \* line 263
  newNbOfTuples,
  squares_nodes_no_duplicate,  \* line 273
  mesh,               \* line 286
  \* ---- the scripts writing MED files
  disk,         \* per file name: the content of the file, None when absent
  io_log,       \* the writes made so far, in order
  lb,           \* LecEcrBase.py: position and variables
  la,           \* LecEcrAvancee.py: position and variables
  sm,           \* SplitMergeAvancee.py: position and variables
  \* ---- Remapper.py
  rm,           \* position and variables
  \* ---- NumpyScipy.py
  ns,           \* position, names, objects and buffers
  \* ---- Field.py
  fd,           \* position and variables
  \* ---- the optional bindings of the library
  cap           \* the capability queries made and the bindings used so far

mpVars == <<mp_pc, m, m2, matSeq, nbProc, workToDo, loop_i, wGlobals, running,
            taskState, attempts, results, doneOrder, subMatrices, matPar, matDelta>>

daVars == <<da_pc, data_arr, data_arr_pol, data_arr_cart, translations, squares,
            squares_da, common_tuples, common_tuples_indices, group_slices, o2n,
            newNbOfTuples, squares_nodes_no_duplicate, mesh>>

fileVars == <<disk, io_log, lb, la, sm>>

vars == <<mpVars, daVars, fileVars, rm, ns, fd, cap>>

(***************************************************************************)
(* Bounds of the model.                                                    *)
(***************************************************************************)
\* Cells per axis of the two grids (the script runs nbCells = 20, line 38).
nbCells == 2

\* Largest value mp.cpu_count() returns (line 73); kept <= nbCells^3 so that
\* every slice holds at least one cell, as it does for 8000 cells.
MaxProc == 3

(***************************************************************************)
(* Generic helpers.                                                        *)
(***************************************************************************)
Max(a, b) == IF a >= b THEN a ELSE b

Min(a, b) == IF a <= b THEN a ELSE b

Abs(a) == IF a >= 0 THEN a ELSE -a

Range(f) == {f[i] : i \in DOMAIN f}

RECURSIVE Flatten(_, _)
\* rows[1] \o ... \o rows[k]
Flatten(rows, k) == IF k = 0 THEN <<>> ELSE Flatten(rows, k - 1) \o rows[k]

RECURSIVE SumSeq(_, _)
\* a[1] + ... + a[k]
SumSeq(a, k) == IF k = 0 THEN 0 ELSE SumSeq(a, k - 1) + a[k]

\* The element of a one-element set.  Only({e(x) : x \in {v}}) is e(v) with
\* v computed once, as a Python local variable holds its value.
Only(S) == CHOOSE r \in S : TRUE

None == [kind |-> "None"]

\* The AssertionError of line 85, as pickled back to the parent.
AssertionError85 == [kind |-> "AssertionError", line |-> 85]

IsMatrix(x) == "shape" \in DOMAIN x

(***************************************************************************)
(* Multiprocessing.py                                                      *)
(***************************************************************************)

\* Lines 38-47: the Cartesian mesh of n cells per axis over [0,1]^3, made
\* unstructured.  A mesh is the sequence of its cells, a cell the lower
\* corner of its box (side 2 units); cell id c = i + n*j + n*n*k.
buildUnstructured(n) ==
  [c \in 1..(n * n * n) |->
     <<2 * ((c - 1) % n), 2 * (((c - 1) \div n) % n), 2 * ((c - 1) \div (n * n))>>]

\* Lines 51-54: a deep copy translated by t = 1/(2*nbCells) on each axis,
\* which is one unit.
translate(mesh0, t) ==
  [c \in 1..Len(mesh0) |-> <<mesh0[c][1] + t, mesh0[c][2] + t, mesh0[c][3] + t>>]

getNumberOfCells(mesh0) == Len(mesh0)

\* Length of the intersection of [a, a+2] and [b, b+2].
Overlap(a, b) == Max(0, Min(a + 2, b + 2) - Max(a, b))

\* Volume of the intersection of two cells: the P0P0 crude weight.
IntersectVolume(s, t) == Overlap(s[1], t[1]) * Overlap(s[2], t[2]) * Overlap(s[3], t[3])

\* The values remap.prepare may return; the script asserts it is 1.
PrepareStatus == {0, 1}

\* DataArrayInt.deltaShiftIndex: consecutive differences.
deltaShiftIndex(a) == [i \in 1..(Len(a) - 1) |-> a[i + 1] - a[i]]

\* DataArrayInt.computeOffsetsFull: [0, a0, a0+a1, ...], one entry more.
computeOffsetsFull(a) ==
  Only({[i \in 1..(Len(v) + 1) |-> SumSeq(v, i - 1)] : v \in {a}})

\* remap.prepare(src, trg, "P0P0") followed by getCrudeCSRMatrix(): one row
\* per target cell, one column per source cell, the stored entries are the
\* positive intersection volumes, columns increasing within a row.
\* indptr and indices hold 0-based values as in scipy.
getCrudeCSRMatrix(src, trg) ==
  LET row(t) == SelectSeq([c \in 1..Len(src) |-> <<c - 1, IntersectVolume(src[c], trg[t])>>],
                          LAMBDA e : e[2] > 0)
  IN Only({Only({[shape   |-> <<Len(trg), Len(src)>>,
                  indptr  |-> computeOffsetsFull([t \in 1..Len(trg) |-> Len(rows[t])]),
                  indices |-> [p \in 1..Len(flat) |-> flat[p][1]],
                  data    |-> [p \in 1..Len(flat) |-> flat[p][2]]] :
                 flat \in {Flatten(rows, Len(trg))}}) :
           rows \in {[t \in 1..Len(trg) |-> row(t)]}})

\* A plausible slip: arr[:len(vals)] = vals, the ids forgotten.
ScatterIntoZeros_ByPosition(n, ids, vals) ==
  Only({[g \in 1..n |-> IF g <= Len(d) THEN d[g] ELSE 0] : d \in {vals}})

\* arr[ids] = vals on an array of n zeros (lines 87-90); ids are 0-based.
ScatterIntoZeros(n, ids, vals) ==
  Only({[g \in 1..n |->
           IF \E k \in 1..Len(ids) : ids[k] = g - 1
           THEN d[CHOOSE k \in 1..Len(ids) :
                    /\ ids[k] = g - 1
                    /\ \A k2 \in 1..Len(ids) : ids[k2] = g - 1 => k2 <= k]
           ELSE 0] :
        d \in {vals}})

\* A plausible slip in work: the row counts are copied to the first rows
\* instead of being scattered to the global rows partToGlob.
work_NoScatter(inp, gm, gm2) ==
  LET indptrnew(d) == [g \in 1..getNumberOfCells(gm2) |-> IF g <= Len(d) THEN d[g] ELSE 0]
  IN Only({[shape   |-> <<getNumberOfCells(gm2), getNumberOfCells(gm)>>,
            indptr  |-> computeOffsetsFull(indptrnew(deltaShiftIndex(myMat.indptr))),
            indices |-> myMat.indices,
            data    |-> myMat.data] :
           myMat \in {getCrudeCSRMatrix(gm, inp.part)}})

\* Lines 82-96, after the assertion of line 85 passed.  gm and gm2 are the
\* globals m and m2 as the executing process sees them.
work(inp, gm, gm2) ==
  LET indptrnew(d) == ScatterIntoZeros(getNumberOfCells(gm2), inp.partToGlob, d)
  IN Only({[shape   |-> <<getNumberOfCells(gm2), getNumberOfCells(gm)>>,
            indptr  |-> computeOffsetsFull(indptrnew(deltaShiftIndex(myMat.indptr))),
            indices |-> myMat.indices,
            data    |-> myMat.data] :
           myMat \in {getCrudeCSRMatrix(gm, inp.part)}})

\* mc.DataArray.GetSlice(slice(start, stop, 1), sliceId, nbOfSlices): every
\* slice gets (stop-start) div nbOfSlices items, the last one runs to stop.
GetSlice(start, stop, sliceId, nbOfSlices) ==
  LET q == (stop - start) \div nbOfSlices
  IN [start |-> start + q * sliceId,
      stop  |-> IF sliceId < nbOfSlices - 1 THEN start + q * (sliceId + 1) ELSE stop]

\* mc.DataArrayInt.Range(start, stop, 1)
DataArrayIntRange(start, stop) == [k \in 1..Max(0, stop - start) |-> start + k - 1]

\* m2[s]: the sub-mesh of the cells of the slice, in order.
MeshSlice(mesh0, s) == [k \in 1..Max(0, s.stop - s.start) |-> mesh0[s.start + k]]

\* A plausible slip in the loop body: every slice cut to the same length by
\* hand, the remainder of the division forgotten.
WorkItem_EvenOnly(i, n, trg) ==
  LET q == getNumberOfCells(trg) \div n
      s == [start |-> q * i, stop |-> q * (i + 1)]
  IN [part |-> MeshSlice(trg, s), partToGlob |-> DataArrayIntRange(s.start, s.stop)]

\* Lines 103-106: the work item of loop index i (0-based) out of n.
WorkItem(i, n, trg) ==
  LET s == GetSlice(0, getNumberOfCells(trg), i, n)
  IN [part |-> MeshSlice(trg, s), partToGlob |-> DataArrayIntRange(s.start, s.stop)]

\* ---- scipy.sparse.csr_matrix arithmetic

\* Value of the matrix at (r, c), 0-based: the sum of the stored entries of
\* row r whose column is c.
RECURSIVE RowEntrySum(_, _, _, _)
RowEntrySum(A, c, lo, hi) ==
  IF hi <= lo THEN 0
  ELSE RowEntrySum(A, c, lo, hi - 1) + (IF A.indices[hi] = c THEN A.data[hi] ELSE 0)

At(A, r, c) == RowEntrySum(A, c, A.indptr[r + 1], A.indptr[r + 2])

\* A + sign * B as scipy's csr_binop_csr builds it: row by row, columns
\* increasing, zero results dropped.
CsrCombine(A, B, sign) ==
  Only({
    LET D(r, c) == At(X[1], r, c) + sign * At(X[2], r, c)
        shape == X[1].shape
        cols(r) == SelectSeq([c \in 1..shape[2] |-> c - 1], LAMBDA c : D(r - 1, c) # 0)
    IN Only({[shape   |-> shape,
              indptr  |-> computeOffsetsFull([r \in 1..shape[1] |-> Len(rowIdx[r])]),
              indices |-> Flatten(rowIdx, shape[1]),
              data    |-> Flatten([r \in 1..shape[1] |->
                                     [p \in 1..Len(rowIdx[r]) |-> D(r - 1, rowIdx[r][p])]],
                                  shape[1])] :
             rowIdx \in {[r \in 1..shape[1] |-> cols(r)]}}) :
    X \in {<<A, B>>}})

CsrAdd(A, B) == CsrCombine(A, B, 1)

CsrSub(A, B) == CsrCombine(A, B, -1)

nnz(A) == Len(A.data)

\* Python sum(mats): 0 + mats[1] is mats[1] itself, then csr additions.
RECURSIVE PySum(_, _)
PySum(mats, k) ==
  IF k = 1 THEN mats[1] ELSE CsrAdd(PySum(mats, k - 1), mats[k])

\* Rows of a matrix holding at least one stored entry (1-based row numbers).
NonEmptyRows(A) == {r \in 1..A.shape[1] : A.indptr[r + 1] > A.indptr[r]}

\* ---- the parent process

Tasks == 1..nbProc

AllFinished == \A i \in DOMAIN taskState : taskState[i] \in {"done", "failed"}

\* A plausible slip: the parent takes the results as soon as one task is back.
GetReady_Any == \E i \in DOMAIN taskState : taskState[i] \in {"done", "failed"}

\* asyncResult.get() (line 113) returns, or raises, once every task of the
\* map has reported back.
GetReady == AllFinished

\* A plausible slip: the exception of a failed task is dropped by the parent.
GetRaises_Never == FALSE

\* asyncResult.get() re-raises in the parent the exception of a failed task.
GetRaises == \E i \in DOMAIN taskState : taskState[i] = "failed"

\* A plausible slip: the results are kept in completion order
\* (imap_unordered instead of map_async).
Collected_Unordered == [k \in 1..Len(doneOrder) |-> results[doneOrder[k]]]

\* The list get() returns: result i is the one of workToDo[i].
Collected == [i \in 1..Len(workToDo) |-> results[i]]

MPIdle ==
  /\ mp_pc = "off" /\ m = <<>> /\ m2 = <<>> /\ matSeq = None /\ nbProc = 0
  /\ workToDo = <<>> /\ loop_i = 0 /\ wGlobals = <<>> /\ running = <<>>
  /\ taskState = <<>> /\ attempts = <<>> /\ results = <<>> /\ doneOrder = <<>>
  /\ subMatrices = <<>> /\ matPar = None /\ matDelta = None

\* Lines 38-54: the two meshes.
MPInit ==
  /\ mp_pc = "prepare"
  /\ m = buildUnstructured(nbCells)
  /\ m2 = translate(buildUnstructured(nbCells), 1)
  /\ matSeq = None /\ nbProc = 0
  /\ workToDo = <<>> /\ loop_i = 0 /\ wGlobals = <<>> /\ running = <<>>
  /\ taskState = <<>> /\ attempts = <<>> /\ results = <<>> /\ doneOrder = <<>>
  /\ subMatrices = <<>> /\ matPar = None /\ matDelta = None

\* Lines 60-67: the sequential preparation, its assertion, matSeq.
SeqPrepare ==
  /\ mp_pc = "prepare"
  /\ \E status \in PrepareStatus :
       IF status = 1
       THEN /\ matSeq' = getCrudeCSRMatrix(m, m2)
            /\ mp_pc' = "cpu_count"
       ELSE /\ matSeq' = matSeq
            /\ mp_pc' = "AssertionError@62"
  /\ cap' = [cap EXCEPT !.used = IF mp_pc' = "cpu_count" THEN @ \cup {"SciPy"} ELSE @]
  /\ UNCHANGED <<m, m2, nbProc, workToDo, loop_i, wGlobals, running, taskState,
                 attempts, results, doneOrder, subMatrices, matPar, matDelta>>
  /\ UNCHANGED <<daVars, fileVars, rm, ns, fd>>

\* Line 73 and 101: nbProc = mp.cpu_count(); workToDo = [].
CpuCount ==
  /\ mp_pc = "cpu_count"
  /\ \E n \in 1..MaxProc : nbProc' = n
  /\ workToDo' = <<>>
  /\ loop_i' = 0
  /\ mp_pc' = "loop"
  /\ UNCHANGED <<m, m2, matSeq, wGlobals, running, taskState, attempts, results,
                 doneOrder, subMatrices, matPar, matDelta>>
  /\ UNCHANGED <<daVars, fileVars, rm, ns, fd, cap>>

\* Lines 102-106: one iteration of the loop over range(nbProc).
LoopBody ==
  /\ mp_pc = "loop"
  /\ loop_i < nbProc
  /\ workToDo' = Append(workToDo, WorkItem(loop_i, nbProc, m2))
  /\ loop_i' = loop_i + 1
  /\ UNCHANGED <<mp_pc, m, m2, matSeq, nbProc, wGlobals, running, taskState,
                 attempts, results, doneOrder, subMatrices, matPar, matDelta>>
  /\ UNCHANGED <<daVars, fileVars, rm, ns, fd, cap>>

\* Lines 111-112: the pool forks cpu_count() processes, each with its own
\* copy of the parent's globals; map_async queues one task per work item
\* (chunk size 1 for len(workToDo) = number of processes).
PoolMapAsync ==
  /\ mp_pc = "loop"
  /\ loop_i = nbProc
  /\ wGlobals' = [p \in 1..nbProc |-> [m |-> m, m2 |-> m2]]
  /\ running' = [p \in 1..nbProc |-> 0]
  /\ taskState' = [i \in 1..Len(workToDo) |-> "queued"]
  /\ attempts' = [i \in 1..Len(workToDo) |-> 0]
  /\ results' = [i \in 1..Len(workToDo) |-> None]
  /\ doneOrder' = <<>>
  /\ mp_pc' = "get"
  /\ UNCHANGED <<m, m2, matSeq, nbProc, workToDo, loop_i, subMatrices, matPar, matDelta>>
  /\ UNCHANGED <<daVars, fileVars, rm, ns, fd, cap>>

\* An idle pool process takes a queued task (its pickled work item).
WorkerStart(p, i) ==
  /\ mp_pc = "get"
  /\ running[p] = 0
  /\ taskState[i] = "queued"
  /\ running' = [running EXCEPT ![p] = i]
  /\ taskState' = [taskState EXCEPT ![i] = "running"]
  /\ attempts' = [attempts EXCEPT ![i] = @ + 1]
  /\ UNCHANGED <<mp_pc, m, m2, matSeq, nbProc, workToDo, loop_i, wGlobals,
                 results, doneOrder, subMatrices, matPar, matDelta>>
  /\ UNCHANGED <<daVars, fileVars, rm, ns, fd, cap>>

\* Lines 82-96 in pool process p: the assertion of line 85 fails and the
\* AssertionError is sent back, or mat2 is returned.
WorkerFinish(p) ==
  /\ mp_pc = "get"
  /\ running[p] # 0
  /\ LET i == running[p] IN
       /\ \E status \in PrepareStatus :
            IF status = 1
            THEN /\ results' = [results EXCEPT
                                  ![i] = work(workToDo[i], wGlobals[p].m, wGlobals[p].m2)]
                 /\ taskState' = [taskState EXCEPT ![i] = "done"]
            ELSE /\ results' = [results EXCEPT ![i] = AssertionError85]
                 /\ taskState' = [taskState EXCEPT ![i] = "failed"]
       /\ doneOrder' = Append(doneOrder, i)
  /\ running' = [running EXCEPT ![p] = 0]
  /\ cap' = [cap EXCEPT !.used = IF taskState'[running[p]] = "done"
                                  THEN @ \cup {"SciPy", "NumPy"} ELSE @]
  /\ UNCHANGED <<mp_pc, m, m2, matSeq, nbProc, workToDo, loop_i, wGlobals,
                 attempts, subMatrices, matPar, matDelta>>
  /\ UNCHANGED <<daVars, fileVars, rm, ns, fd>>

\* Line 113: asyncResult.get() returns the list of results, or re-raises the
\* exception of a failed task; the script does not catch it.
Get ==
  /\ mp_pc = "get"
  /\ GetReady
  /\ IF GetRaises
     THEN /\ mp_pc' = "AssertionError@113"
          /\ subMatrices' = subMatrices
     ELSE /\ mp_pc' = "sum"
          /\ subMatrices' = Collected
  /\ UNCHANGED <<m, m2, matSeq, nbProc, workToDo, loop_i, wGlobals, running,
                 taskState, attempts, results, doneOrder, matPar, matDelta>>
  /\ UNCHANGED <<daVars, fileVars, rm, ns, fd, cap>>

\* Line 129: matPar = sum(subMatrices).  Adding a value that is not a matrix
\* (a task that has not reported back) raises.
Aggregate ==
  /\ mp_pc = "sum"
  /\ IF \A k \in DOMAIN subMatrices : IsMatrix(subMatrices[k])
     THEN /\ matPar' = PySum(subMatrices, Len(subMatrices))
          /\ mp_pc' = "verify"
     ELSE /\ matPar' = matPar
          /\ mp_pc' = "TypeError@129"
  /\ UNCHANGED <<m, m2, matSeq, nbProc, workToDo, loop_i, wGlobals, running,
                 taskState, attempts, results, doneOrder, subMatrices, matDelta>>
  /\ UNCHANGED <<daVars, fileVars, rm, ns, fd, cap>>

\* Lines 130-131: matDelta = matSeq - matPar; assert matDelta.nnz == 0.
Verify ==
  /\ mp_pc = "verify"
  /\ matDelta' = CsrSub(matSeq, matPar)
  /\ mp_pc' = IF nnz(CsrSub(matSeq, matPar)) = 0 THEN "end" ELSE "AssertionError@131"
  /\ UNCHANGED <<m, m2, matSeq, nbProc, workToDo, loop_i, wGlobals, running,
                 taskState, attempts, results, doneOrder, subMatrices, matPar>>
  /\ UNCHANGED <<daVars, fileVars, rm, ns, fd, cap>>

MPNext ==
  \/ SeqPrepare
  \/ CpuCount
  \/ LoopBody
  \/ PoolMapAsync
  \/ \E p \in DOMAIN running : \E i \in DOMAIN taskState : WorkerStart(p, i)
  \/ \E p \in DOMAIN running : WorkerFinish(p)
  \/ Get
  \/ Aggregate
  \/ Verify

(***************************************************************************)
(* Claims on Multiprocessing.py (checked under SpecMP).                    *)
(***************************************************************************)
\* The parent is past line 113 with the list of results in hand.
MPPastGet == mp_pc \in {"sum", "verify", "end", "AssertionError@131", "TypeError@129"}

\* C1: for every worker count nbProc, the matrix matPar summed from the
\* nbProc partial matrices equals matSeq entry for entry: the assertion of
\* line 131 never fails and matSeq - matPar stores no entry.
C1_ParallelEqualsSequential ==
  /\ mp_pc # "AssertionError@131"
  /\ mp_pc \in {"verify", "end"} =>
       /\ matPar.shape = matSeq.shape
       /\ \A r \in 0..(matSeq.shape[1] - 1) : \A c \in 0..(matSeq.shape[2] - 1) :
            At(matPar, r, c) = At(matSeq, r, c)
  /\ mp_pc = "end" => nnz(matDelta) = 0

\* C1 witness: the script ran to its end with several workers whose slices
\* have different lengths, and the matrix has stored entries.
C1_Witness ==
  /\ mp_pc = "end"
  /\ nbProc >= 2
  /\ Len(workToDo[nbProc].partToGlob) # Len(workToDo[1].partToGlob)
  /\ nnz(matSeq) > 0

\* The global cell ids of the work items built so far, item after item.
AllPartToGlob == Flatten([i \in 1..Len(workToDo) |-> workToDo[i].partToGlob], Len(workToDo))

\* C2: the slices built by the workToDo loop are contiguous and pairwise
\* disjoint (item after item they enumerate 0, 1, 2, ... without gap or
\* repetition), each part holds the cells of its ids, after the loop they
\* cover every target cell exactly once, and the partial matrices have
\* pairwise disjoint sets of non-empty rows.
C2_SlicesPartitionTargetCells ==
  /\ AllPartToGlob = [k \in 1..Len(AllPartToGlob) |-> k - 1]
  /\ \A i \in 1..Len(workToDo) :
       /\ Len(workToDo[i].part) = Len(workToDo[i].partToGlob)
       /\ \A k \in 1..Len(workToDo[i].part) :
            workToDo[i].part[k] = m2[workToDo[i].partToGlob[k] + 1]
  /\ (mp_pc = "loop" /\ loop_i = nbProc) \/ mp_pc = "get" \/ MPPastGet =>
       /\ Len(workToDo) = nbProc
       /\ Len(AllPartToGlob) = getNumberOfCells(m2)
  /\ \A i, j \in DOMAIN results :
       (i # j /\ IsMatrix(results[i]) /\ IsMatrix(results[j])) =>
         /\ NonEmptyRows(results[i]) \cap NonEmptyRows(results[j]) = {}
         /\ NonEmptyRows(results[i]) \subseteq {g + 1 : g \in Range(workToDo[i].partToGlob)}

\* C2 witness: three partial matrices came back for slices of unequal
\* length (8 cells cut in 2, 2 and 4).
C2_Witness ==
  /\ mp_pc = "sum"
  /\ nbProc = 3
  /\ Len(workToDo[3].partToGlob) > Len(workToDo[1].partToGlob)
  /\ \A i \in 1..3 : NonEmptyRows(subMatrices[i]) # {}

\* C3: the parent aggregates only after every dispatched work unit has
\* completed and every result is collected; it never leaves the wait of
\* line 113 (timeout, cancellation) while a unit is queued or running, and
\* never sums a partial result set.
C3_AggregateAfterAllCollected ==
  /\ mp_pc \notin {"off", "prepare", "cpu_count", "loop", "get", "AssertionError@62"} =>
       AllFinished
  /\ MPPastGet =>
       /\ Len(subMatrices) = nbProc
       /\ \A i \in 1..nbProc : taskState[i] = "done" /\ subMatrices[i] = results[i]
                               /\ IsMatrix(subMatrices[i])
  /\ mp_pc # "TypeError@129"

\* C3 witness: the sum was computed after three units completed out of order.
C3_Witness ==
  /\ mp_pc = "verify"
  /\ nbProc = 3
  /\ doneOrder = <<3, 1, 2>>

\* Globals a pool process could hold instead of the parent's m and m2.
OtherGlobals ==
  [m |-> buildUnstructured(nbCells - 1), m2 |-> translate(buildUnstructured(nbCells - 1), 1)]

\* C4 as stated: everything a worker reads is supplied in its work item, so
\* the value a unit returns is the same whatever the globals of the
\* executing process hold, and the collected list does not depend on the
\* interleaving.
C4_ResultFromWorkItemAlone ==
  /\ \A i \in DOMAIN results :
       IsMatrix(results[i]) =>
         results[i] = work(workToDo[i], OtherGlobals.m, OtherGlobals.m2)
  /\ MPPastGet => subMatrices = [i \in 1..nbProc |-> work(workToDo[i], m, m2)]

\* C4 amended: a worker reads its work item and its process's own copies
\* of the globals m and m2, which equal the parent's and are never written;
\* the value a unit returns (checked when it completes) is work of its item
\* on those, whichever process ran it and in whatever order, and the
\* collected list holds work(workToDo[i]) at position i for every
\* interleaving and completion order.
C4_ResultFromItemAndForkedGlobals ==
  /\ \A p \in DOMAIN wGlobals : wGlobals[p] = [m |-> m, m2 |-> m2]
  /\ (mp_pc = "get" /\ doneOrder # <<>>) =>
       LET i == doneOrder[Len(doneOrder)] IN
         IsMatrix(results[i]) => results[i] = work(workToDo[i], m, m2)
  /\ MPPastGet => subMatrices = [i \in 1..nbProc |-> work(workToDo[i], m, m2)]

\* C4 witness: the list was collected although the units completed in
\* another order than they were dispatched.
C4_Witness ==
  /\ mp_pc = "sum"
  /\ nbProc = 3
  /\ doneOrder = <<2, 3, 1>>

\* C5: when the preparation of a worker returns a status other than 1 the
\* unit ends with the AssertionError of line 85, no unit is started twice,
\* the pool call raises in the parent, and neither the aggregation nor the
\* final assertion is executed.
C5_WorkerFailureFailsPool ==
  /\ \A i \in DOMAIN attempts : attempts[i] <= 1
  /\ \A i \in DOMAIN taskState :
       taskState[i] = "failed" <=> results[i] = AssertionError85
  /\ (\E i \in DOMAIN taskState : taskState[i] = "failed") =>
       /\ mp_pc \in {"get", "AssertionError@113"}
       /\ subMatrices = <<>> /\ matPar = None /\ matDelta = None
  /\ mp_pc = "AssertionError@113" => \E i \in DOMAIN taskState : taskState[i] = "failed"

\* C5 witness: the pool call raised in the parent after one unit failed and
\* another one returned its matrix.
C5_Witness ==
  /\ mp_pc = "AssertionError@113"
  /\ \E i \in DOMAIN taskState : taskState[i] = "failed"
  /\ \E i \in DOMAIN taskState : taskState[i] = "done"

(***************************************************************************)
(* DataArray.py                                                            *)
(***************************************************************************)
\* Lines 93-118: the corners of the unit square centred at (0, 0), in units
\* of 0.5: x = [-0.5, 0.5, 0.5, -0.5], y = [-0.5, -0.5, 0.5, 0.5].
SquareCorners == << <<-1, -1>>, <<1, -1>>, <<1, 1>>, <<-1, 1>> >>

\* Lines 158-163: [0.5, 0.5], [0.5, 1.5], [1.5, 0.5], [1.5, 1.5].
TutorialTranslations == << <<1, 1>>, <<1, 3>>, <<3, 1>>, <<3, 3>> >>

\* Line 201: 1.0e-12, which is below the unit 0.5 of the model: two values
\* of the model are within the tolerance exactly when they differ by 0.
absolute_tolerance == 0

\* ---- polar and Cartesian conversions (lines 125-128)
\* A real number q/2 + k*pi is the record [q |-> q, pi |-> k].
Num(q) == [q |-> q, pi |-> 0]

\* DataArrayDouble.fromPolarToCart: the tuple (r, theta) becomes
\* (r cos theta, r sin theta), kept exactly as the record
\* [rho |-> r, theta |-> theta] (both in units of 0.5).
fromPolarToCart(arr) == [i \in 1..Len(arr) |-> [rho |-> arr[i][1], theta |-> arr[i][2]]]

\* DataArrayDouble.fromCartToPolar on (x, y) = (rho cos theta, rho sin theta)
\* with |theta| < pi: r = sqrt(x^2 + y^2) = |rho| and the angle is
\* atan2(y, x) in (-pi, pi], which is theta for rho > 0, theta -+ pi for
\* rho < 0 and 0 for rho = 0.
CartToPolarTuple(p) ==
  IF p.rho > 0 THEN <<Num(p.rho), Num(p.theta)>>
  ELSE IF p.rho = 0 THEN <<Num(0), Num(0)>>
  ELSE <<Num(-p.rho), [q |-> p.theta, pi |-> IF p.theta <= 0 THEN 1 ELSE -1]>>

fromCartToPolar(arr) == [i \in 1..Len(arr) |-> CartToPolarTuple(arr[i])]

\* ---- arrays of tuples

\* A plausible slip: the translation is not applied.
AddVector_Forgotten(arr, v) == arr

\* data_arr + translation (line 172), arr += [1.0, 1.0] (line 277).
AddVector(arr, v) == [i \in 1..Len(arr) |-> <<arr[i][1] + v[1], arr[i][2] + v[2]>>]

\* A plausible slip: the arrays are aggregated last to first.
Aggregate2_Reversed(arrs) ==
  Flatten([k \in 1..Len(arrs) |-> arrs[Len(arrs) + 1 - k]], Len(arrs))

\* mc.DataArrayDouble.Aggregate (line 179): the arrays one after the other.
Aggregate2(arrs) == Flatten(arrs, Len(arrs))

\* Two tuples are equal within the tolerance, component by component.
Close(a, b, tol) == Abs(a[1] - b[1]) <= tol /\ Abs(a[2] - b[2]) <= tol

\* The 1-based positions of the tuples near tuple i, i excluded, increasing.
Near(arr, i, tol) ==
  SelectSeq([j \in 1..Len(arr) |-> j], LAMBDA j : j # i /\ Close(arr[i], arr[j], tol))

RECURSIVE FCT_Singletons(_, _, _, _, _, _)
\* A plausible slip: a tuple near no other tuple is reported as a group.
FCT_Singletons(arr, tol, i, done, c, cI) ==
  IF i > Len(arr) THEN [c |-> c, cI |-> cI]
  ELSE IF i \in done THEN FCT_Singletons(arr, tol, i + 1, done, c, cI)
  ELSE LET near == Near(arr, i, tol)
       IN FCT_Singletons(arr, tol, i + 1, done \cup Range(near),
                         c \o <<i - 1>> \o [k \in 1..Len(near) |-> near[k] - 1],
                         Append(cI, cI[Len(cI)] + Len(near) + 1))

RECURSIVE FCT_ShortIndex(_, _, _, _, _, _)
\* A plausible slip: the index advances by the number of neighbours, the
\* first tuple of the group not counted.
FCT_ShortIndex(arr, tol, i, done, c, cI) ==
  IF i > Len(arr) THEN [c |-> c, cI |-> cI]
  ELSE IF i \in done THEN FCT_ShortIndex(arr, tol, i + 1, done, c, cI)
  ELSE LET near == Near(arr, i, tol)
       IN IF Len(near) > 0
          THEN FCT_ShortIndex(arr, tol, i + 1, done \cup Range(near),
                              c \o <<i - 1>> \o [k \in 1..Len(near) |-> near[k] - 1],
                              Append(cI, cI[Len(cI)] + Len(near)))
          ELSE FCT_ShortIndex(arr, tol, i + 1, done, c, cI)

RECURSIVE FCT(_, _, _, _, _, _)
\* The scan of findCommonTuples: tuple i (1-based), not yet in a group,
\* opens a group when some other tuple is near it; the group is i followed
\* by its neighbours, which are marked done; the index array gains the end
\* of the group.  Ids are stored 0-based.
FCT(arr, tol, i, done, c, cI) ==
  IF i > Len(arr) THEN [c |-> c, cI |-> cI]
  ELSE IF i \in done THEN FCT(arr, tol, i + 1, done, c, cI)
  ELSE LET near == Near(arr, i, tol)
       IN IF Len(near) > 0
          THEN FCT(arr, tol, i + 1, done \cup Range(near),
                   c \o <<i - 1>> \o [k \in 1..Len(near) |-> near[k] - 1],
                   Append(cI, cI[Len(cI)] + Len(near) + 1))
          ELSE FCT(arr, tol, i + 1, done, c, cI)

findCommonTuples_Singletons(arr, tol) == FCT_Singletons(arr, tol, 1, {}, <<>>, <<0>>)

findCommonTuples_ShortIndex(arr, tol) == FCT_ShortIndex(arr, tol, 1, {}, <<>>, <<0>>)

\* squares_da.findCommonTuples(tol) (line 203): the indirect index pair
\* (values, index) of the groups of equal tuples; index starts with 0.
findCommonTuples(arr, tol) == FCT(arr, tol, 1, {}, <<>>, <<0>>)

\* The first step of ConvertIndexArrayToO2N: every old tuple is free (-1),
\* the first tuple of group g (1-based) is marked -(g+1).
O2NMarks(n, arr, arrI) ==
  [k \in 1..n |->
     IF \E g \in 1..(Len(arrI) - 1) : arr[arrI[g] + 1] = k - 1
     THEN -(1 + CHOOSE g \in 1..(Len(arrI) - 1) :
                   /\ arr[arrI[g] + 1] = k - 1
                   /\ \A g2 \in 1..(Len(arrI) - 1) : arr[arrI[g2] + 1] = k - 1 => g2 <= g)
     ELSE -1]

RECURSIVE O2NScan_RepresentativeOnly(_, _, _, _, _, _)
\* A plausible slip: only the first tuple of a group receives the id of the
\* group, its other members are numbered as free tuples.
O2NScan_RepresentativeOnly(n, arr, arrI, iNode, pt, newNb) ==
  IF iNode > n THEN <<pt, newNb>>
  ELSE IF pt[iNode] >= 0 THEN O2NScan_RepresentativeOnly(n, arr, arrI, iNode + 1, pt, newNb)
  ELSE O2NScan_RepresentativeOnly(n, arr, arrI, iNode + 1,
                                  [pt EXCEPT ![iNode] = newNb], newNb + 1)

RECURSIVE O2NScan(_, _, _, _, _, _)
\* The second step: the old tuples are scanned in order; a free tuple takes
\* the next new id, the first tuple of a group gives the next new id to
\* every member of its group.
O2NScan(n, arr, arrI, iNode, pt, newNb) ==
  IF iNode > n THEN <<pt, newNb>>
  ELSE IF pt[iNode] >= 0 THEN O2NScan(n, arr, arrI, iNode + 1, pt, newNb)
  ELSE IF pt[iNode] = -1
       THEN O2NScan(n, arr, arrI, iNode + 1, [pt EXCEPT ![iNode] = newNb], newNb + 1)
  ELSE LET g == -(pt[iNode] + 1)
           members == {arr[j] + 1 : j \in (arrI[g] + 1)..arrI[g + 1]}
       IN O2NScan(n, arr, arrI, iNode + 1,
                  [k \in 1..n |-> IF k \in members THEN newNb ELSE pt[k]], newNb + 1)

ConvertIndexArrayToO2N_RepresentativeOnly(n, arr, arrI) ==
  O2NScan_RepresentativeOnly(n, arr, arrI, 1, O2NMarks(n, arr, arrI), 0)

\* mc.DataArrayInt.ConvertIndexArrayToO2N(n, arr, arrI) (line 263): the
\* pair (old-to-new array, number of new tuples).
ConvertIndexArrayToO2N(n, arr, arrI) ==
  O2NScan(n, arr, arrI, 1, O2NMarks(n, arr, arrI), 0)

\* The content of a tuple no old tuple is copied to.
Uninitialized == <<>>

\* arr.renumberAndReduce(old2New, newNb) (line 273): old tuple i is copied
\* to the new position old2New[i]; the last copy stays.
renumberAndReduce(arr, old2New, newNb) ==
  [w \in 1..newNb |->
     IF \E i \in 1..Len(arr) : old2New[i] = w - 1
     THEN arr[CHOOSE i \in 1..Len(arr) :
                /\ old2New[i] = w - 1
                /\ \A i2 \in 1..Len(arr) : old2New[i2] = w - 1 => i2 <= i]
     ELSE Uninitialized]

\* ---- the unstructured mesh (lines 284-311)
\* Dimension of the cell type NORM_POLYGON.
CellTypeDimension(type) ==
  IF type \in {"NORM_POLYGON", "NORM_TRI3", "NORM_QUAD4"} THEN 2
  ELSE IF type = "NORM_SEG2" THEN 1
  ELSE -1

\* mc.MEDCouplingUMesh(name, dimension); setCoords; allocateCells.
NewUMesh(name, dimension, coords) ==
  [name |-> name, meshDim |-> dimension, coords |-> coords, cells |-> <<>>]

\* mesh.insertNextCell(type, nodes) accepts a cell type of the dimension of
\* the mesh.
CanInsert(mesh0, type) == CellTypeDimension(type) = mesh0.meshDim

\* mesh.checkConsistencyLight(): the coordinates are set, every cell type
\* has the dimension of the mesh, no connectivity entry dangles.
checkConsistencyLight(mesh0) ==
  /\ Len(mesh0.coords) > 0
  /\ \A k \in 1..Len(mesh0.cells) :
       /\ CellTypeDimension(mesh0.cells[k].type) = mesh0.meshDim
       /\ \A q \in 1..Len(mesh0.cells[k].conn) :
            mesh0.cells[k].conn[q] \in 0..(Len(mesh0.coords) - 1)

\* o2n[4*i : 4*(i+1)] (line 306), i 0-based.
Chunk(arr, i) == [k \in 1..4 |-> arr[4 * i + k]]

DAIdle ==
  /\ da_pc = "off" /\ data_arr = <<>> /\ data_arr_pol = <<>> /\ data_arr_cart = <<>>
  /\ translations = <<>> /\ squares = <<>> /\ squares_da = <<>>
  /\ common_tuples = <<>> /\ common_tuples_indices = <<>> /\ group_slices = <<>>
  /\ o2n = <<>> /\ newNbOfTuples = 0 /\ squares_nodes_no_duplicate = <<>>
  /\ mesh = None

\* The state after line 118; the list of four translations is an input
\* drawn from the four vectors of the script.
DAInit ==
  /\ da_pc = "fromPolarToCart"
  /\ data_arr = SquareCorners
  /\ translations \in [1..Len(TutorialTranslations) -> Range(TutorialTranslations)]
  /\ data_arr_pol = <<>> /\ data_arr_cart = <<>>
  /\ squares = <<>> /\ squares_da = <<>>
  /\ common_tuples = <<>> /\ common_tuples_indices = <<>> /\ group_slices = <<>>
  /\ o2n = <<>> /\ newNbOfTuples = 0 /\ squares_nodes_no_duplicate = <<>>
  /\ mesh = None

\* Line 125: data_arr_pol = data_arr.fromPolarToCart()
PolarToCart ==
  /\ da_pc = "fromPolarToCart"
  /\ data_arr_pol' = fromPolarToCart(data_arr)
  /\ da_pc' = "fromCartToPolar"
  /\ UNCHANGED <<data_arr, data_arr_cart, translations, squares, squares_da,
                 common_tuples, common_tuples_indices, group_slices, o2n,
                 newNbOfTuples, squares_nodes_no_duplicate, mesh>>
  /\ UNCHANGED <<mpVars, fileVars, rm, ns, fd, cap>>

\* Line 128: data_arr_cart = data_arr_pol.fromCartToPolar()
CartToPolar ==
  /\ da_pc = "fromCartToPolar"
  /\ data_arr_cart' = fromCartToPolar(data_arr_pol)
  /\ da_pc' = "squares"
  /\ UNCHANGED <<data_arr, data_arr_pol, translations, squares, squares_da,
                 common_tuples, common_tuples_indices, group_slices, o2n,
                 newNbOfTuples, squares_nodes_no_duplicate, mesh>>
  /\ UNCHANGED <<mpVars, fileVars, rm, ns, fd, cap>>

\* Lines 169-172: one iteration of the loop over translations.
AppendSquare ==
  /\ da_pc = "squares"
  /\ Len(squares) < Len(translations)
  /\ squares' = Append(squares, AddVector(data_arr, translations[Len(squares) + 1]))
  /\ UNCHANGED <<da_pc, data_arr, data_arr_pol, data_arr_cart, translations, squares_da,
                 common_tuples, common_tuples_indices, group_slices, o2n,
                 newNbOfTuples, squares_nodes_no_duplicate, mesh>>
  /\ UNCHANGED <<mpVars, fileVars, rm, ns, fd, cap>>

\* Line 179: squares_da = mc.DataArrayDouble.Aggregate(squares)
AggregateSquares ==
  /\ da_pc = "squares"
  /\ Len(squares) = Len(translations)
  /\ squares_da' = Aggregate2(squares)
  /\ da_pc' = "findCommonTuples"
  /\ UNCHANGED <<data_arr, data_arr_pol, data_arr_cart, translations, squares,
                 common_tuples, common_tuples_indices, group_slices, o2n,
                 newNbOfTuples, squares_nodes_no_duplicate, mesh>>
  /\ UNCHANGED <<mpVars, fileVars, rm, ns, fd, cap>>

\* Line 203.
FindCommonTuples ==
  /\ da_pc = "findCommonTuples"
  /\ LET r == findCommonTuples(squares_da, absolute_tolerance) IN
       /\ common_tuples' = r.c
       /\ common_tuples_indices' = r.cI
  /\ da_pc' = "groups"
  /\ UNCHANGED <<data_arr, data_arr_pol, data_arr_cart, translations, squares, squares_da,
                 group_slices, o2n, newNbOfTuples, squares_nodes_no_duplicate, mesh>>
  /\ UNCHANGED <<mpVars, fileVars, rm, ns, fd, cap>>

\* Lines 221-224: one iteration of the loop over zip(ci[:-1], ci[1:]); the
\* pair (j, k) it slices c with is recorded.
GroupLoop ==
  /\ da_pc = "groups"
  /\ Len(group_slices) < Len(common_tuples_indices) - 1
  /\ LET g == Len(group_slices) + 1 IN
       group_slices' = Append(group_slices,
                              <<common_tuples_indices[g], common_tuples_indices[g + 1]>>)
  /\ UNCHANGED <<da_pc, data_arr, data_arr_pol, data_arr_cart, translations, squares,
                 squares_da, common_tuples, common_tuples_indices, o2n,
                 newNbOfTuples, squares_nodes_no_duplicate, mesh>>
  /\ UNCHANGED <<mpVars, fileVars, rm, ns, fd, cap>>

\* Lines 263-265.
ConvertO2N ==
  /\ da_pc = "groups"
  /\ Len(group_slices) >= Len(common_tuples_indices) - 1
  /\ LET r == ConvertIndexArrayToO2N(Len(squares_da), common_tuples, common_tuples_indices) IN
       /\ o2n' = r[1]
       /\ newNbOfTuples' = r[2]
  /\ da_pc' = "renumberAndReduce"
  /\ UNCHANGED <<data_arr, data_arr_pol, data_arr_cart, translations, squares, squares_da,
                 common_tuples, common_tuples_indices, group_slices,
                 squares_nodes_no_duplicate, mesh>>
  /\ UNCHANGED <<mpVars, fileVars, rm, ns, fd, cap>>

\* Line 273.
RenumberAndReduce ==
  /\ da_pc = "renumberAndReduce"
  /\ squares_nodes_no_duplicate' = renumberAndReduce(squares_da, o2n, newNbOfTuples)
  /\ da_pc' = "shift"
  /\ UNCHANGED <<data_arr, data_arr_pol, data_arr_cart, translations, squares, squares_da,
                 common_tuples, common_tuples_indices, group_slices, o2n,
                 newNbOfTuples, mesh>>
  /\ UNCHANGED <<mpVars, fileVars, rm, ns, fd, cap>>

\* Line 277: squares_nodes_no_duplicate += [1.0, 1.0]
Shift ==
  /\ da_pc = "shift"
  /\ squares_nodes_no_duplicate' = AddVector(squares_nodes_no_duplicate, <<2, 2>>)
  /\ da_pc' = "mesh"
  /\ UNCHANGED <<data_arr, data_arr_pol, data_arr_cart, translations, squares, squares_da,
                 common_tuples, common_tuples_indices, group_slices, o2n,
                 newNbOfTuples, mesh>>
  /\ UNCHANGED <<mpVars, fileVars, rm, ns, fd, cap>>

\* Lines 284-299: the mesh, its coordinates, allocateCells(4).
CreateMesh ==
  /\ da_pc = "mesh"
  /\ mesh' = NewUMesh("FourSquares", 2, squares_nodes_no_duplicate)
  /\ da_pc' = "insertNextCell"
  /\ UNCHANGED <<data_arr, data_arr_pol, data_arr_cart, translations, squares, squares_da,
                 common_tuples, common_tuples_indices, group_slices, o2n,
                 newNbOfTuples, squares_nodes_no_duplicate>>
  /\ UNCHANGED <<mpVars, fileVars, rm, ns, fd, cap>>

\* Lines 304-307: one iteration of the loop over range(4).
InsertNextCell ==
  /\ da_pc = "insertNextCell"
  /\ Len(mesh.cells) < 4
  /\ IF CanInsert(mesh, "NORM_POLYGON")
     THEN /\ mesh' = [mesh EXCEPT !.cells =
                        Append(@, [type |-> "NORM_POLYGON", conn |-> Chunk(o2n, Len(mesh.cells))])]
          /\ da_pc' = da_pc
     ELSE /\ mesh' = mesh
          /\ da_pc' = "InterpKernelException@307"
  /\ UNCHANGED <<data_arr, data_arr_pol, data_arr_cart, translations, squares, squares_da,
                 common_tuples, common_tuples_indices, group_slices, o2n,
                 newNbOfTuples, squares_nodes_no_duplicate>>
  /\ UNCHANGED <<mpVars, fileVars, rm, ns, fd, cap>>

\* Line 311: mesh.checkConsistencyLight() raises on an anomaly.
CheckConsistency ==
  /\ da_pc = "insertNextCell"
  /\ Len(mesh.cells) = 4
  /\ da_pc' = IF checkConsistencyLight(mesh) THEN "end" ELSE "InterpKernelException@311"
  /\ UNCHANGED <<data_arr, data_arr_pol, data_arr_cart, translations, squares, squares_da,
                 common_tuples, common_tuples_indices, group_slices, o2n,
                 newNbOfTuples, squares_nodes_no_duplicate, mesh>>
  /\ UNCHANGED <<mpVars, fileVars, rm, ns, fd, cap>>

DANext ==
  \/ PolarToCart
  \/ CartToPolar
  \/ AppendSquare
  \/ AggregateSquares
  \/ FindCommonTuples
  \/ GroupLoop
  \/ ConvertO2N
  \/ RenumberAndReduce
  \/ Shift
  \/ CreateMesh
  \/ InsertNextCell
  \/ CheckConsistency

(***************************************************************************)
(* Claims on DataArray.py (checked under SpecDA).                          *)
(***************************************************************************)
\* The statements of the script in the order they run.
DAOrder == <<"fromPolarToCart", "fromCartToPolar", "squares", "findCommonTuples",
             "groups", "renumberAndReduce", "shift", "mesh", "insertNextCell", "end">>

DARank(pc) ==
  IF pc \in {"InterpKernelException@307", "InterpKernelException@311"} THEN 9
  ELSE CHOOSE k \in 1..Len(DAOrder) : DAOrder[k] = pc

\* The statements at position stage have been executed.
DAAfter(stage) == DARank(da_pc) > DARank(stage)

\* C6: with the four translations of the script, the 16 aggregated tuples are
\* compacted to exactly 9 pairwise different tuples, which are the different
\* tuples of the 16, and the mesh of 4 polygons over them passes
\* checkConsistencyLight: no statement raises.
C6_NineUniqueNodesAndConsistentMesh ==
  translations = TutorialTranslations =>
    /\ DAAfter("squares") => Len(squares_da) = 16
    /\ DAAfter("groups") => newNbOfTuples = 9
    /\ DAAfter("renumberAndReduce") =>
         /\ Len(squares_nodes_no_duplicate) = 9
         /\ \A i, j \in 1..9 :
              i # j => squares_nodes_no_duplicate[i] # squares_nodes_no_duplicate[j]
         /\ Range(squares_nodes_no_duplicate) =
              Range(AddVector(squares_da, IF DAAfter("shift") THEN <<2, 2>> ELSE <<0, 0>>))
    /\ da_pc \notin {"InterpKernelException@307", "InterpKernelException@311"}
    /\ da_pc = "end" =>
         /\ Len(mesh.cells) = 4
         /\ Len(mesh.coords) = 9
         /\ checkConsistencyLight(mesh)

\* C6 witness: the script of the tutorial ran to its end.
C6_Witness ==
  /\ da_pc = "end"
  /\ translations = TutorialTranslations
  /\ Len(mesh.coords) = 9

\* Old tuples i and j (1-based) lie in one group of the indirect index pair.
SameCluster(i, j) ==
  \/ i = j
  \/ \E g \in 1..(Len(common_tuples_indices) - 1) :
       {i - 1, j - 1} \subseteq
         {common_tuples[p] :
            p \in (common_tuples_indices[g] + 1)..common_tuples_indices[g + 1]}

\* C7: the old-to-new array has one entry per old tuple, maps onto exactly
\* 0..newNbOfTuples-1, gives two old tuples the same new index exactly when
\* they lie in the same cluster, and numbers the new indices in first-seen
\* order of the old ones; the clusters [2,3] of 4 tuples give [0,1,2,2], 3.
C7_OldToNewFromClusters ==
  /\ ConvertIndexArrayToO2N(4, <<2, 3>>, <<0, 2>>) = << <<0, 1, 2, 2>>, 3 >>
  /\ DAAfter("groups") =>
       /\ Len(o2n) = Len(squares_da)
       /\ Range(o2n) = 0..(newNbOfTuples - 1)
       /\ \A i, j \in 1..Len(o2n) : o2n[i] = o2n[j] <=> SameCluster(i, j)
       /\ \A i \in 1..Len(o2n) :
            \/ \E k \in 1..(i - 1) : o2n[k] = o2n[i]
            \/ o2n[i] = Cardinality({o2n[k] : k \in 1..(i - 1)})

\* C7 witness: the old-to-new array of the tutorial, with clusters of 2 and
\* of 4 tuples and 4 tuples that are in no cluster.
C7_Witness ==
  /\ DAAfter("groups")
  /\ translations = TutorialTranslations
  /\ o2n = <<0, 1, 2, 3, 3, 2, 4, 5, 1, 6, 7, 2, 2, 7, 8, 4>>
  /\ newNbOfTuples = 9

\* The sets of positions of equal tuples that hold at least two tuples.
DuplicateClasses(arr) ==
  {cl \in {{j \in 1..Len(arr) : Close(arr[i], arr[j], absolute_tolerance)} : i \in 1..Len(arr)} :
     Cardinality(cl) >= 2}

\* C8: the index array returned by findCommonTuples is non-decreasing, has
\* one entry more than there are groups of equal tuples, and ends with the
\* length of the values array, so every slice [index[g], index[g+1]) taken
\* by the loop of lines 221-224 lies inside the values array.
C8_IndexArrayWellFormed ==
  DAAfter("findCommonTuples") =>
    /\ Len(common_tuples_indices) = Cardinality(DuplicateClasses(squares_da)) + 1
    /\ \A g \in 1..(Len(common_tuples_indices) - 1) :
         common_tuples_indices[g] <= common_tuples_indices[g + 1]
    /\ common_tuples_indices[Len(common_tuples_indices)] = Len(common_tuples)
    /\ \A s \in 1..Len(group_slices) :
         /\ 0 <= group_slices[s][1]
         /\ group_slices[s][1] <= group_slices[s][2]
         /\ group_slices[s][2] <= Len(common_tuples)
    /\ DAAfter("groups") => Len(group_slices) = Len(common_tuples_indices) - 1

\* C8 witness: the loop sliced the five groups of the tutorial.
C8_Witness ==
  /\ DAAfter("groups")
  /\ translations = TutorialTranslations
  /\ group_slices = << <<0, 2>>, <<2, 6>>, <<6, 8>>, <<8, 10>>, <<10, 12>> >>
  /\ common_tuples = <<1, 8, 2, 5, 11, 12, 3, 4, 6, 15, 10, 13>>

\* C9: every group reported by findCommonTuples holds at least two tuples
\* (every entry of the delta shift of the index array is >= 2), the sizes
\* add up to the length of the values array, and a tuple equal to no other
\* tuple is in no group.
C9_OnlyClustersOfTwoOrMore ==
  DAAfter("findCommonTuples") =>
    LET d == deltaShiftIndex(common_tuples_indices) IN
      /\ \A g \in 1..Len(d) : d[g] >= 2
      /\ SumSeq(d, Len(d)) = Len(common_tuples)
      /\ \A i \in 1..Len(squares_da) :
           Near(squares_da, i, absolute_tolerance) = <<>> =>
             (i - 1) \notin Range(common_tuples)

\* C9 witness: the group sizes of the tutorial, where tuples 0, 7, 9 and 14
\* are equal to no other tuple.
C9_Witness ==
  /\ DAAfter("findCommonTuples")
  /\ translations = TutorialTranslations
  /\ deltaShiftIndex(common_tuples_indices) = <<2, 4, 2, 2, 2>>
  /\ Near(squares_da, 1, absolute_tolerance) = <<>>

\* C10: after the two conversions of lines 125 and 128 the array
\* data_arr_cart reproduces the original array data_arr.
C10_PolarRoundTripReproducesOriginal ==
  DAAfter("fromCartToPolar") =>
    data_arr_cart = [i \in 1..Len(data_arr) |-> <<Num(data_arr[i][1]), Num(data_arr[i][2])>>]

(***************************************************************************)
(* MED files (LecEcrBase.py, LecEcrAvancee.py, SplitMergeAvancee.py).      *)
(*                                                                         *)
(* A mesh is [name, meshDim, coords, cells]; a cell is [type, conn] with   *)
(* 0-based node ids.  A field is [type, name, time, mesh, array] with      *)
(* time = <<physical time in tenths, iteration, order>>.  A MED file keeps *)
(* the cells of a mesh level and the values of a field geometric type by   *)
(* geometric type.                                                         *)
(***************************************************************************)
\* The files the three scripts write.
FileNames == {"TargetMesh.med", "MyFirstField.med", "MySecondField.med",
              "TargetMesh2.med", "proc0.med", "proc1.med", "merge.med"}

\* The geometric types in the order a MED file stores them.
MEDTypeOrder == <<"NORM_SEG2", "NORM_TRI3", "NORM_QUAD4", "NORM_HEXA8", "NORM_POLYHED">>

\* The positions (1-based) of the cells of a geometric type, increasing.
CellsOfType(cells, type) ==
  SelectSeq([k \in 1..Len(cells) |-> k], LAMBDA k : cells[k].type = type)

\* The cells as a file lays them out: type after type in MEDTypeOrder, the
\* cells of one type in their order in the mesh (positions, 1-based).
FileCellOrder(cells) ==
  Flatten([t \in 1..Len(MEDTypeOrder) |-> CellsOfType(cells, MEDTypeOrder[t])],
          Len(MEDTypeOrder))

\* sortCellsInMEDFileFrmt / the check made when a level is stored: cells of
\* one type are contiguous and the types come in MEDTypeOrder.
IsSortedInMEDFileFrmt(cells) == FileCellOrder(cells) = [k \in 1..Len(cells) |-> k]

\* One level of a mesh as stored: per geometric type the connectivities.
StoreCells(cells) ==
  [t \in 1..Len(MEDTypeOrder) |->
     Only({[k \in 1..Len(pos) |-> cells[pos[k]].conn] :
           pos \in {CellsOfType(cells, MEDTypeOrder[t])}})]

\* The cells read back from a stored level.
LoadCells(stored) ==
  Flatten([t \in 1..Len(MEDTypeOrder) |->
             [k \in 1..Len(stored[t]) |-> [type |-> MEDTypeOrder[t], conn |-> stored[t][k]]]],
          Len(MEDTypeOrder))

\* The values of an on-cells array as stored: per geometric type.
StoreCellValues(cells, array) ==
  [t \in 1..Len(MEDTypeOrder) |->
     Only({[k \in 1..Len(pos) |-> array[pos[k]]] :
           pos \in {CellsOfType(cells, MEDTypeOrder[t])}})]

\* A plausible slip: the types are read back in the reverse order.
LoadCellValues_TypesReversed(stored) ==
  Flatten([t \in 1..Len(MEDTypeOrder) |-> stored[Len(MEDTypeOrder) + 1 - t]],
          Len(MEDTypeOrder))

\* The on-cells array read back: the types one after the other.
LoadCellValues(stored) == Flatten(stored, Len(MEDTypeOrder))

\* The relative levels a mesh container may hold.
MeshLevels == {0, -1}

NoLevel == [kind |-> "NoLevel"]

\* A mesh of a file: name, coordinates, per relative level the stored cells
\* (NoLevel when the level is absent) and the groups (name, ids) of the level.
StoredMesh(name, meshDim, coords, levels, groups) ==
  [name |-> name, meshDim |-> meshDim, coords |-> coords, levels |-> levels, groups |-> groups]

\* A mesh with the single level 0 and no group, as the basic API writes it.
StoredUMesh(mesh0) ==
  StoredMesh(mesh0.name, mesh0.meshDim, mesh0.coords,
             [l \in MeshLevels |-> IF l = 0 THEN StoreCells(mesh0.cells) ELSE NoLevel],
             [l \in MeshLevels |-> <<>>])

\* The mesh of level lev of a stored mesh, as a MEDCouplingUMesh.
LoadUMesh(sm0, lev) ==
  [name |-> sm0.name, meshDim |-> sm0.meshDim + lev, coords |-> sm0.coords,
   cells |-> LoadCells(sm0.levels[lev])]

\* One time step of a field as stored.  pfl is <<>> when the field lies on
\* the whole mesh, else the name of the profile, data then holding per
\* geometric type the ids and the values.
StoredField(f, data, pfl) ==
  [name |-> f.name, type |-> f.type, mesh |-> f.mesh.name, time |-> f.time,
   data |-> data, pfl |-> pfl]

\* The data of a field lying on the whole level 0 of its mesh.
FieldData(f) ==
  IF f.type = "ON_CELLS" THEN StoreCellValues(f.mesh.cells, f.array) ELSE f.array

FileExists(d, fileName) == d[fileName] # None

HasMesh(d, fileName, meshName) ==
  /\ FileExists(d, fileName)
  /\ \E k \in 1..Len(d[fileName].meshes) : d[fileName].meshes[k].name = meshName

HasField(d, fileName, fieldName, it, order) ==
  /\ FileExists(d, fileName)
  /\ \E k \in 1..Len(d[fileName].fields) :
       /\ d[fileName].fields[k].name = fieldName
       /\ d[fileName].fields[k].time[2] = it
       /\ d[fileName].fields[k].time[3] = order

GetMesh(d, fileName, meshName) ==
  d[fileName].meshes[CHOOSE k \in 1..Len(d[fileName].meshes) :
                       d[fileName].meshes[k].name = meshName]

GetField(d, fileName, fieldName, it, order) ==
  d[fileName].fields[CHOOSE k \in 1..Len(d[fileName].fields) :
                       /\ d[fileName].fields[k].name = fieldName
                       /\ d[fileName].fields[k].time[2] = it
                       /\ d[fileName].fields[k].time[3] = order]

\* A plausible slip: the mesh is stored without its name.
WriteMeshFromScratch_Unnamed(d, fileName, sm0) ==
  [d EXCEPT ![fileName] = [meshes |-> <<[sm0 EXCEPT !.name = ""]>>, fields |-> <<>>]]

\* A write in mode 2 (write from scratch): the file holds the mesh alone.
WriteMeshFromScratch(d, fileName, sm0) ==
  [d EXCEPT ![fileName] = [meshes |-> <<sm0>>, fields |-> <<>>]]

\* A write in mode 0 (append) of one field step.
AppendField(d, fileName, sf) ==
  [d EXCEPT ![fileName] = [meshes |-> @.meshes, fields |-> Append(@.fields, sf)]]

\* mc.WriteUMesh(fileName, mesh, True)
WriteUMesh(d, fileName, mesh0) == WriteMeshFromScratch(d, fileName, StoredUMesh(mesh0))

\* mc.WriteField(fileName, f, True): the mesh of f, then f.
WriteField(d, fileName, f) ==
  AppendField(WriteUMesh(d, fileName, f.mesh), fileName, StoredField(f, FieldData(f), <<>>))

\* mc.WriteFieldUsingAlreadyWrittenMesh(fileName, f) is valid when the file
\* holds the mesh f refers to.
CanAppend(d, fileName, meshName) == HasMesh(d, fileName, meshName)

WriteFieldUsingAlreadyWrittenMesh(d, fileName, f) ==
  AppendField(d, fileName, StoredField(f, FieldData(f), <<>>))

\* mc.ReadUMeshFromFile(fileName, meshName, 0)
ReadUMeshFromFile(d, fileName, meshName, lev) == LoadUMesh(GetMesh(d, fileName, meshName), lev)

\* mc.ReadFieldCell(fileName, meshName, 0, fieldName, it, order): the step
\* of that key on the mesh read from the file.
ReadFieldCell(d, fileName, meshName, lev, fieldName, it, order) ==
  Only({[type |-> "ON_CELLS", name |-> sf.name, time |-> sf.time,
         mesh |-> ReadUMeshFromFile(d, fileName, meshName, lev),
         array |-> LoadCellValues(sf.data)] :
        sf \in {GetField(d, fileName, fieldName, it, order)}})

\* mc.ReadFieldNode(fileName, meshName, 0, fieldName, it, order)
ReadFieldNode(d, fileName, meshName, lev, fieldName, it, order) ==
  Only({[type |-> "ON_NODES", name |-> sf.name, time |-> sf.time,
         mesh |-> ReadUMeshFromFile(d, fileName, meshName, lev),
         array |-> sf.data] :
        sf \in {GetField(d, fileName, fieldName, it, order)}})

\* MEDCouplingUMesh.isEqual(other, eps) for coordinates on the exact grid of
\* the model: same name, dimension, coordinates and cells.
MeshIsEqual(a, b) ==
  /\ a.name = b.name /\ a.meshDim = b.meshDim
  /\ a.coords = b.coords /\ a.cells = b.cells

\* MEDCouplingFieldDouble.isEqual(other, meshPrec, valsPrec)
FieldIsEqual(a, b) ==
  /\ a.type = b.type /\ a.name = b.name /\ a.time = b.time
  /\ MeshIsEqual(a.mesh, b.mesh)
  /\ a.array = b.array

\* One entry of the history of the writes: the mode (2 write from scratch,
\* 0 append), the file, the mesh written or referred to, and whether the
\* file held that mesh when the write began.
LogEntry(mode, fileName, meshName, d) ==
  [mode |-> mode, file |-> fileName, mesh |-> meshName,
   meshPresent |-> HasMesh(d, fileName, meshName)]

\* Mean of the nodes of a cell: computeCellCenterOfMass for the triangles
\* and rectangles of the scripts.  The divisions are exact in the units of
\* the model.
CellCenter(coords, conn) ==
  << SumSeq([k \in 1..Len(conn) |-> coords[conn[k] + 1][1]], Len(conn)) \div Len(conn),
     SumSeq([k \in 1..Len(conn) |-> coords[conn[k] + 1][2]], Len(conn)) \div Len(conn) >>

computeCellCenterOfMass(mesh0) ==
  [c \in 1..Len(mesh0.cells) |-> CellCenter(mesh0.coords, mesh0.cells[c].conn)]

(***************************************************************************)
(* LecEcrBase.py.  Lengths are in units of 0.1/6, physical times in        *)
(* tenths.  lb holds the script's position pc, its variables under their   *)
(* names, and arrays, the DataArrayDouble objects the fields refer to      *)
(* (a field's array is the index of its object).                           *)
(***************************************************************************)
\* Lines 47-50: targetCoords as 9 tuples (-0.3 is -18, 0.2 is 12, 0.7 is 42).
targetCoords ==
  << <<-18, -18>>, <<12, -18>>, <<42, -18>>, <<-18, 12>>, <<12, 12>>,
     <<42, 12>>, <<-18, 42>>, <<12, 42>>, <<42, 42>> >>

\* Lines 52-56.
tri1 == <<1, 4, 2>>

tri2 == <<4, 5, 2>>

qua1 == <<0, 3, 4, 1>>

qua2 == <<6, 7, 4, 3>>

qua3 == <<7, 8, 5, 4>>

\* Lines 62-71 (LecEcrBase.py) and 64-73 (LecEcrAvancee.py): the mesh
\* "MyMesh" of two triangles and three quadrangles.
BuildTargetMesh ==
  [NewUMesh("MyMesh", 2, targetCoords) EXCEPT
     !.cells = << [type |-> "NORM_TRI3", conn |-> tri1],
                  [type |-> "NORM_TRI3", conn |-> tri2],
                  [type |-> "NORM_QUAD4", conn |-> qua1],
                  [type |-> "NORM_QUAD4", conn |-> qua2],
                  [type |-> "NORM_QUAD4", conn |-> qua3] >>]

\* The value 2.0 of line 139 in the units of the model.
FillValue == 120

\* The field with its array object replaced by the values it holds.
Deref(arrays, f) == [f EXCEPT !.array = arrays[f.array]]

\* A plausible slip: clone(False), the copy shares the array of the source.
clone_Shallow(arrays, f) == [arrays |-> arrays, field |-> f]

\* f.clone(True): a deep copy, the copy gets an array object of its own.
clone(arrays, f) ==
  [arrays |-> Append(arrays, arrays[f.array]), field |-> [f EXCEPT !.array = Len(arrays) + 1]]

\* arr[:] = v
FillArray(arr, v) == [k \in 1..Len(arr) |-> <<v, v>>]

LBIdle == lb = [pc |-> "off"]

\* Lines 47-71: targetMesh is built.
LBInit ==
  lb = [pc |-> "WriteUMesh", targetMesh |-> BuildTargetMesh, meshRead |-> None,
        f |-> None, f2 |-> None, f3 |-> None, f4 |-> None, arrays |-> <<>>]

\* Line 80: mc.WriteUMesh("TargetMesh.med", targetMesh, True)
LB_WriteUMesh ==
  /\ lb.pc = "WriteUMesh"
  /\ disk' = WriteUMesh(disk, "TargetMesh.med", lb.targetMesh)
  /\ io_log' = Append(io_log, LogEntry(2, "TargetMesh.med", lb.targetMesh.name, disk))
  /\ lb' = [lb EXCEPT !.pc = "ReadUMeshFromFile"]
  /\ UNCHANGED <<mpVars, daVars, la, sm, rm, ns, fd, cap>>

\* Line 86: meshRead = mc.ReadUMeshFromFile("TargetMesh.med", "MyMesh", 0)
LB_ReadUMeshFromFile ==
  /\ lb.pc = "ReadUMeshFromFile"
  /\ lb' = IF HasMesh(disk, "TargetMesh.med", lb.targetMesh.name)
           THEN [lb EXCEPT !.pc = "NewField",
                           !.meshRead = ReadUMeshFromFile(disk, "TargetMesh.med",
                                                          lb.targetMesh.name, 0)]
           ELSE [lb EXCEPT !.pc = "InterpKernelException@86"]
  /\ UNCHANGED <<mpVars, daVars, disk, io_log, la, sm, rm, ns, fd, cap>>

\* Lines 95-99: the field f on cells at time (5.6, 7, 8), its array the
\* cell centres.
LB_NewField ==
  /\ lb.pc = "NewField"
  /\ lb' = [lb EXCEPT !.pc = "WriteField",
                      !.arrays = Append(@, computeCellCenterOfMass(lb.targetMesh)),
                      !.f = [type |-> "ON_CELLS", name |-> "AFieldName",
                             time |-> <<56, 7, 8>>, mesh |-> lb.targetMesh,
                             array |-> Len(lb.arrays) + 1]]
  /\ UNCHANGED <<mpVars, daVars, disk, io_log, la, sm, rm, ns, fd, cap>>

\* Line 100: mc.WriteField("MyFirstField.med", f, True)
LB_WriteField ==
  /\ lb.pc = "WriteField"
  /\ disk' = WriteField(disk, "MyFirstField.med", Deref(lb.arrays, lb.f))
  /\ io_log' = Append(io_log, LogEntry(2, "MyFirstField.med", lb.f.mesh.name, disk))
  /\ lb' = [lb EXCEPT !.pc = "ReadFieldCell"]
  /\ UNCHANGED <<mpVars, daVars, la, sm, rm, ns, fd, cap>>

\* Line 111: f2 = mc.ReadFieldCell("MyFirstField.med", "MyMesh", 0, "AFieldName", 7, 8)
LB_ReadFieldCell ==
  /\ lb.pc = "ReadFieldCell"
  /\ lb' = IF /\ HasMesh(disk, "MyFirstField.med", lb.f.mesh.name)
              /\ HasField(disk, "MyFirstField.med", lb.f.name, 7, 8)
           THEN Only({[lb EXCEPT !.pc = "WriteUMesh2",
                                 !.arrays = Append(@, r.array),
                                 !.f2 = [r EXCEPT !.array = Len(lb.arrays) + 1]] :
                      r \in {ReadFieldCell(disk, "MyFirstField.med", lb.f.mesh.name, 0,
                                           lb.f.name, 7, 8)}})
           ELSE [lb EXCEPT !.pc = "InterpKernelException@111"]
  /\ UNCHANGED <<mpVars, daVars, disk, io_log, la, sm, rm, ns, fd, cap>>

\* Line 126: mc.WriteUMesh("MySecondField.med", f.getMesh(), True)
LB_WriteUMesh2 ==
  /\ lb.pc = "WriteUMesh2"
  /\ disk' = WriteUMesh(disk, "MySecondField.med", lb.f.mesh)
  /\ io_log' = Append(io_log, LogEntry(2, "MySecondField.med", lb.f.mesh.name, disk))
  /\ lb' = [lb EXCEPT !.pc = "WriteFieldUsingAlreadyWrittenMesh"]
  /\ UNCHANGED <<mpVars, daVars, la, sm, rm, ns, fd, cap>>

\* Line 132: mc.WriteFieldUsingAlreadyWrittenMesh("MySecondField.med", f)
LB_WriteFieldUsingAlreadyWrittenMesh ==
  /\ lb.pc = "WriteFieldUsingAlreadyWrittenMesh"
  /\ io_log' = Append(io_log, LogEntry(0, "MySecondField.med", lb.f.mesh.name, disk))
  /\ IF CanAppend(disk, "MySecondField.med", lb.f.mesh.name)
     THEN /\ disk' = WriteFieldUsingAlreadyWrittenMesh(disk, "MySecondField.med",
                                                       Deref(lb.arrays, lb.f))
          /\ lb' = [lb EXCEPT !.pc = "clone"]
     ELSE /\ disk' = disk
          /\ lb' = [lb EXCEPT !.pc = "InterpKernelException@132"]
  /\ UNCHANGED <<mpVars, daVars, la, sm, rm, ns, fd, cap>>

\* Lines 138-140: f2 = f.clone(True); f2.getArray()[:] = 2.0;
\* f2.setTime(7.8, 9, 10)
LB_Clone ==
  /\ lb.pc = "clone"
  /\ lb' = Only({[lb EXCEPT !.pc = "WriteFieldUsingAlreadyWrittenMesh2",
                            !.arrays = [c.arrays EXCEPT ![c.field.array] =
                                          FillArray(@, FillValue)],
                            !.f2 = [c.field EXCEPT !.time = <<78, 9, 10>>]] :
                 c \in {clone(lb.arrays, lb.f)}})
  /\ UNCHANGED <<mpVars, daVars, disk, io_log, la, sm, rm, ns, fd, cap>>

\* Line 141: mc.WriteFieldUsingAlreadyWrittenMesh("MySecondField.med", f2)
LB_WriteFieldUsingAlreadyWrittenMesh2 ==
  /\ lb.pc = "WriteFieldUsingAlreadyWrittenMesh2"
  /\ io_log' = Append(io_log, LogEntry(0, "MySecondField.med", lb.f2.mesh.name, disk))
  /\ IF CanAppend(disk, "MySecondField.med", lb.f2.mesh.name)
     THEN /\ disk' = WriteFieldUsingAlreadyWrittenMesh(disk, "MySecondField.med",
                                                       Deref(lb.arrays, lb.f2))
          /\ lb' = [lb EXCEPT !.pc = "ReadFieldCell3"]
     ELSE /\ disk' = disk
          /\ lb' = [lb EXCEPT !.pc = "InterpKernelException@141"]
  /\ UNCHANGED <<mpVars, daVars, la, sm, rm, ns, fd, cap>>

\* Line 149: f3 = mc.ReadFieldCell("MySecondField.med", "MyMesh", 0, "AFieldName", 7, 8)
LB_ReadFieldCell3 ==
  /\ lb.pc = "ReadFieldCell3"
  /\ lb' = IF /\ HasMesh(disk, "MySecondField.med", lb.f.mesh.name)
              /\ HasField(disk, "MySecondField.med", lb.f.name, 7, 8)
           THEN Only({[lb EXCEPT !.pc = "ReadFieldCell4",
                                 !.arrays = Append(@, r.array),
                                 !.f3 = [r EXCEPT !.array = Len(lb.arrays) + 1]] :
                      r \in {ReadFieldCell(disk, "MySecondField.med", lb.f.mesh.name, 0,
                                           lb.f.name, 7, 8)}})
           ELSE [lb EXCEPT !.pc = "InterpKernelException@149"]
  /\ UNCHANGED <<mpVars, daVars, disk, io_log, la, sm, rm, ns, fd, cap>>

\* Line 151: f4 = mc.ReadFieldCell("MySecondField.med", "MyMesh", 0, "AFieldName", 9, 10)
LB_ReadFieldCell4 ==
  /\ lb.pc = "ReadFieldCell4"
  /\ lb' = IF /\ HasMesh(disk, "MySecondField.med", lb.f.mesh.name)
              /\ HasField(disk, "MySecondField.med", lb.f.name, 9, 10)
           THEN Only({[lb EXCEPT !.pc = "end",
                                 !.arrays = Append(@, r.array),
                                 !.f4 = [r EXCEPT !.array = Len(lb.arrays) + 1]] :
                      r \in {ReadFieldCell(disk, "MySecondField.med", lb.f.mesh.name, 0,
                                           lb.f.name, 9, 10)}})
           ELSE [lb EXCEPT !.pc = "InterpKernelException@151"]
  /\ UNCHANGED <<mpVars, daVars, disk, io_log, la, sm, rm, ns, fd, cap>>

LBNext ==
  \/ LB_WriteUMesh
  \/ LB_ReadUMeshFromFile
  \/ LB_NewField
  \/ LB_WriteField
  \/ LB_ReadFieldCell
  \/ LB_WriteUMesh2
  \/ LB_WriteFieldUsingAlreadyWrittenMesh
  \/ LB_Clone
  \/ LB_WriteFieldUsingAlreadyWrittenMesh2
  \/ LB_ReadFieldCell3
  \/ LB_ReadFieldCell4

(***************************************************************************)
(* Claims on LecEcrBase.py (checked under SpecIO).                         *)
(***************************************************************************)
\* The statements of LecEcrBase.py in the order they run.
LBOrder == <<"WriteUMesh", "ReadUMeshFromFile", "NewField", "WriteField", "ReadFieldCell",
             "WriteUMesh2", "WriteFieldUsingAlreadyWrittenMesh", "clone",
             "WriteFieldUsingAlreadyWrittenMesh2", "ReadFieldCell3", "ReadFieldCell4", "end">>

\* The statement at position stage has been executed without raising.
LBAfter(stage) ==
  /\ \E k \in 1..Len(LBOrder) : LBOrder[k] = lb.pc
  /\ (CHOOSE k \in 1..Len(LBOrder) : LBOrder[k] = lb.pc) >
       (CHOOSE k \in 1..Len(LBOrder) : LBOrder[k] = stage)

LBRaised ==
  lb.pc \in {"InterpKernelException@86", "InterpKernelException@111",
             "InterpKernelException@132", "InterpKernelException@141",
             "InterpKernelException@149", "InterpKernelException@151"}

\* C11: the field written to the fresh file MyFirstField.med together with
\* its mesh and re-read by the key ("MyMesh", 0, "AFieldName", 7, 8) equals
\* the source field f, mesh and values; the read does not raise.
C11_FieldRoundTrip ==
  /\ lb.pc # "InterpKernelException@111"
  /\ (LBAfter("ReadFieldCell") /\ ~LBAfter("clone")) =>
       /\ FieldIsEqual(Deref(lb.arrays, lb.f2), Deref(lb.arrays, lb.f))
       /\ MeshIsEqual(lb.f2.mesh, lb.targetMesh)
       /\ lb.arrays[lb.f2.array] = computeCellCenterOfMass(lb.targetMesh)

\* C11 witness: line 111 has read the field of two triangles and three
\* quadrangles back.
C11_Witness ==
  /\ lb.pc = "WriteUMesh2"
  /\ Len(lb.arrays[lb.f2.array]) = 5
  /\ lb.f2.time = <<56, 7, 8>>

\* C12: after the time steps (7,8) and (9,10) were written to
\* MySecondField.med, the field read at (9,10) equals the deep copy f2 with
\* all values 2.0, and the field read at (7,8) equals the field f, which the
\* later write and the filling of the copy left as it was created.
C12_TimeStepsKeptApart ==
  /\ lb.pc \notin {"InterpKernelException@149", "InterpKernelException@151"}
  /\ LBAfter("NewField") =>
       lb.arrays[lb.f.array] = computeCellCenterOfMass(lb.targetMesh)
  /\ LBAfter("ReadFieldCell3") =>
       FieldIsEqual(Deref(lb.arrays, lb.f), Deref(lb.arrays, lb.f3))
  /\ LBAfter("ReadFieldCell4") =>
       /\ FieldIsEqual(Deref(lb.arrays, lb.f2), Deref(lb.arrays, lb.f4))
       /\ lb.arrays[lb.f4.array] = FillArray(lb.arrays[lb.f.array], FillValue)
       /\ lb.f4.time = <<78, 9, 10>>
       /\ lb.arrays[lb.f3.array] # lb.arrays[lb.f4.array]

\* C12 witness: both time steps were read back from the file holding them.
C12_Witness ==
  /\ lb.pc = "end"
  /\ Len(disk["MySecondField.med"].fields) = 2
  /\ lb.f3.time = <<56, 7, 8>>
  /\ lb.f4.time = <<78, 9, 10>>

(***************************************************************************)
(* LecEcrAvancee.py.  Same mesh and units as LecEcrBase.py.  la holds the   *)
(* script's position pc and its variables under their names.  A            *)
(* MEDFileUMesh is kept in the form it is written in (StoredMesh).         *)
(***************************************************************************)
\* The edge (a, b) as the pair of its nodes, smaller id first.
EdgeKey(a, b) == IF a <= b THEN <<a, b>> ELSE <<b, a>>

\* The edges of a cell in the order of its connectivity, each as SEG2
\* connectivity.
CellEdges(conn) == [k \in 1..Len(conn) |-> <<conn[k], conn[(k % Len(conn)) + 1]>>]

RECURSIVE DistinctEdges(_, _, _)
\* The edges of the list, in order, an edge already met (in either
\* direction) left out.
DistinctEdges(edges, k, acc) ==
  IF k > Len(edges) THEN acc
  ELSE IF \E q \in 1..Len(acc) : EdgeKey(acc[q][1], acc[q][2]) = EdgeKey(edges[k][1], edges[k][2])
       THEN DistinctEdges(edges, k + 1, acc)
       ELSE DistinctEdges(edges, k + 1, Append(acc, edges[k]))

\* targetMesh.buildDescendingConnectivity()[0]: the mesh of the edges of the
\* cells, numbered as they are met cell after cell, on the same coordinates.
buildDescendingConnectivity(mesh0) ==
  Only({[name |-> mesh0.name, meshDim |-> mesh0.meshDim - 1, coords |-> mesh0.coords,
         cells |-> [k \in 1..Len(e) |-> [type |-> "NORM_SEG2", conn |-> e[k]]]] :
        e \in {DistinctEdges(Flatten([c \in 1..Len(mesh0.cells) |-> CellEdges(mesh0.cells[c].conn)],
                                     Len(mesh0.cells)), 1, <<>>)}})

\* mesh[ids]: the cells of the given ids (0-based), on the same coordinates.
MeshPart(mesh0, ids) ==
  [mesh0 EXCEPT !.cells = [k \in 1..Len(ids) |-> mesh0.cells[ids[k] + 1]]]

\* mc.MEDFileUMesh(): a container without level.
NewMEDFileUMesh ==
  StoredMesh("", 0, <<>>, [l \in MeshLevels |-> NoLevel], [l \in MeshLevels |-> <<>>])

\* meshMEDFile.setMeshAtLevel(lev, mesh): level 0 gives the container its
\* name, dimension and coordinates.
setMeshAtLevel(mm, lev, mesh0) ==
  [name    |-> mesh0.name,
   meshDim |-> IF lev = 0 THEN mesh0.meshDim ELSE mm.meshDim,
   coords  |-> mesh0.coords,
   levels  |-> [mm.levels EXCEPT ![lev] = StoreCells(mesh0.cells)],
   groups  |-> mm.groups]

\* setMeshAtLevel accepts a mesh ordered by geometric type.
CanSetMeshAtLevel(mm, lev, mesh0) == IsSortedInMEDFileFrmt(mesh0.cells)

\* Number of cells of a level.
NbCellsAtLevel(mm, lev) ==
  IF mm.levels[lev] = NoLevel THEN 0 ELSE Len(Flatten(mm.levels[lev], Len(MEDTypeOrder)))

\* A plausible slip: the groups of a level are dropped when the next level
\* gets its groups.
setGroupsAtLevel_OneLevel(mm, lev, grps) ==
  [mm EXCEPT !.groups =
     [l \in MeshLevels |->
        IF l = lev
        THEN [c \in 1..NbCellsAtLevel(mm, lev) |->
                {grps[g].name : g \in {g \in 1..Len(grps) : (c - 1) \in Range(grps[g].ids)}}]
        ELSE <<>>]]

\* meshMEDFile.setGroupsAtLevel(lev, grps): every cell of the level gets its
\* family, the set of the names of the groups it lies in.
setGroupsAtLevel(mm, lev, grps) ==
  [mm EXCEPT !.groups[lev] =
     [c \in 1..NbCellsAtLevel(mm, lev) |->
        {grps[g].name : g \in {g \in 1..Len(grps) : (c - 1) \in Range(grps[g].ids)}}]]

\* The groups of a level are defined on cells of the level.
CanSetGroupsAtLevel(mm, lev, grps) ==
  /\ mm.levels[lev] # NoLevel
  /\ \A g \in 1..Len(grps) : Range(grps[g].ids) \subseteq 0..(NbCellsAtLevel(mm, lev) - 1)

\* The names of the groups of a level.
GroupNamesAtLevel(mm, lev) == UNION Range(mm.groups[lev])

\* meshMEDFileRead.getGrpNonEmptyLevels(grp): the levels with a cell whose
\* family is in the group.
getGrpNonEmptyLevels(mm, grp) == {l \in MeshLevels : grp \in GroupNamesAtLevel(mm, l)}

\* meshMEDFileRead.getGroupArr(lev, grp): the ids of the cells of the level
\* whose family is in the group, increasing.
getGroupArr(mm, lev, grp) ==
  Only({[k \in 1..Len(pos) |-> pos[k] - 1] :
        pos \in {SelectSeq([c \in 1..Len(mm.groups[lev]) |-> c],
                           LAMBDA c : grp \in mm.groups[lev][c])}})

\* meshMEDFile.write(fileName, 2)
WriteMEDFileUMesh(d, fileName, mm) == WriteMeshFromScratch(d, fileName, mm)

\* mc.MEDFileMesh.New(fileName): the first mesh of the file.
ReadMEDFileMesh(d, fileName) == d[fileName].meshes[1]

\* f.buildSubPart(pfl): the field on the cells pfl of its mesh.
buildSubPart(f, ids) ==
  [f EXCEPT !.mesh = MeshPart(f.mesh, ids),
            !.array = [k \in 1..Len(ids) |-> f.array[ids[k] + 1]]]

\* The 0-based rank of cell id c (0-based) among the cells of its type.
LocalId(cells, c) ==
  Cardinality({q \in 1..c : cells[q].type = cells[c + 1].type})

\* fMEDFile2.setFieldProfile(fPart, mesh, 0, pfl): per geometric type the
\* entries of the profile lying on cells of the type, their ids relative to
\* the type, and their values.
ProfileData(cells, ids, values) ==
  [t \in 1..Len(MEDTypeOrder) |->
     Only({[ids |-> [k \in 1..Len(pos) |-> LocalId(cells, ids[pos[k]])],
            values |-> [k \in 1..Len(pos) |-> values[pos[k]]]] :
           pos \in {SelectSeq([k \in 1..Len(ids) |-> k],
                              LAMBDA k : cells[ids[k] + 1].type = MEDTypeOrder[t])}})]

\* A plausible slip: the ids of the profile are returned as stored, relative
\* to their geometric type.
getFieldWithProfile_LocalIds(sf, cells) ==
  [array |-> Flatten([t \in 1..Len(MEDTypeOrder) |-> sf.data[t].values], Len(MEDTypeOrder)),
   pfl   |-> Flatten([t \in 1..Len(MEDTypeOrder) |-> sf.data[t].ids], Len(MEDTypeOrder))]

\* fMEDFileRead2.getFieldWithProfile(ON_CELLS, 0, mesh): the values of the
\* types one after the other and the ids of their cells in the mesh.
getFieldWithProfile(sf, cells) ==
  [array |-> Flatten([t \in 1..Len(MEDTypeOrder) |-> sf.data[t].values], Len(MEDTypeOrder)),
   pfl   |-> Flatten([t \in 1..Len(MEDTypeOrder) |->
                        [k \in 1..Len(sf.data[t].ids) |->
                           CellsOfType(cells, MEDTypeOrder[t])[sf.data[t].ids[k] + 1] - 1]],
                     Len(MEDTypeOrder))]

\* Lines 101-104 and 112-117: the groups, name and ids.
grp0_0 == [name |-> "grp0_Lev0", ids |-> <<0, 1, 3>>]

grp1_0 == [name |-> "grp1_Lev0", ids |-> <<1, 2, 3, 4>>]

grp0_M1 == [name |-> "grp0_LevM1", ids |-> <<0, 1>>]

grp1_M1 == [name |-> "grp1_LevM1", ids |-> <<0, 1, 2>>]

grp2_M1 == [name |-> "grp2_LevM1", ids |-> <<1, 2, 3>>]

\* Lines 198-199.
pfl == [name |-> "My1stPfl", ids |-> <<1, 2, 3>>]

LAIdle == la = [pc |-> "off"]

\* Lines 51-73: targetMesh is built.
LAInit ==
  la = [pc |-> "buildDescendingConnectivity", targetMesh |-> BuildTargetMesh,
        targetMesh1 |-> None, meshMEDFile |-> None, meshMEDFileRead |-> None,
        meshRead0 |-> None, meshRead1 |-> None, nonEmptyLevels |-> None,
        grp0_0_read |-> None, f |-> None, fRead1 |-> None, fRead2 |-> None,
        fPart |-> None, fPartRead |-> None, pflRead |-> None]

\* Lines 80-82: targetMesh1, the faces 3, 4, 7, 8 of targetMesh.
LA_BuildDescendingConnectivity ==
  /\ la.pc = "buildDescendingConnectivity"
  /\ la' = [la EXCEPT !.pc = "setMeshAtLevel",
                      !.targetMesh1 = MeshPart(buildDescendingConnectivity(la.targetMesh),
                                               <<3, 4, 7, 8>>)]
  /\ UNCHANGED <<mpVars, daVars, disk, io_log, lb, sm, rm, ns, fd, cap>>

\* Lines 92-94: the container with the levels 0 and -1.
LA_SetMeshAtLevel ==
  /\ la.pc = "setMeshAtLevel"
  /\ la' = IF /\ CanSetMeshAtLevel(NewMEDFileUMesh, 0, la.targetMesh)
              /\ CanSetMeshAtLevel(NewMEDFileUMesh, -1, la.targetMesh1)
           THEN [la EXCEPT !.pc = "write",
                           !.meshMEDFile = setMeshAtLevel(
                               setMeshAtLevel(NewMEDFileUMesh, 0, la.targetMesh),
                               -1, la.targetMesh1)]
           ELSE [la EXCEPT !.pc = "InterpKernelException@93"]
  /\ UNCHANGED <<mpVars, daVars, disk, io_log, lb, sm, rm, ns, fd, cap>>

\* Line 95: meshMEDFile.write("TargetMesh2.med", 2)
LA_Write ==
  /\ la.pc = "write"
  /\ disk' = WriteMEDFileUMesh(disk, "TargetMesh2.med", la.meshMEDFile)
  /\ io_log' = Append(io_log, LogEntry(2, "TargetMesh2.med", la.meshMEDFile.name, disk))
  /\ la' = [la EXCEPT !.pc = "setGroupsAtLevel"]
  /\ UNCHANGED <<mpVars, daVars, lb, sm, rm, ns, fd, cap>>

\* Lines 101-118: the groups of level 0, then those of level -1.
LA_SetGroupsAtLevel ==
  /\ la.pc = "setGroupsAtLevel"
  /\ la' = IF /\ CanSetGroupsAtLevel(la.meshMEDFile, 0, <<grp0_0, grp1_0>>)
              /\ CanSetGroupsAtLevel(la.meshMEDFile, -1, <<grp0_M1, grp1_M1, grp2_M1>>)
           THEN [la EXCEPT !.pc = "write2",
                           !.meshMEDFile = setGroupsAtLevel(
                               setGroupsAtLevel(la.meshMEDFile, 0, <<grp0_0, grp1_0>>),
                               -1, <<grp0_M1, grp1_M1, grp2_M1>>)]
           ELSE [la EXCEPT !.pc = "InterpKernelException@105"]
  /\ UNCHANGED <<mpVars, daVars, disk, io_log, lb, sm, rm, ns, fd, cap>>

\* Line 122: meshMEDFile.write("TargetMesh2.med", 2)
LA_Write2 ==
  /\ la.pc = "write2"
  /\ disk' = WriteMEDFileUMesh(disk, "TargetMesh2.med", la.meshMEDFile)
  /\ io_log' = Append(io_log, LogEntry(2, "TargetMesh2.med", la.meshMEDFile.name, disk))
  /\ la' = [la EXCEPT !.pc = "MEDFileMesh.New"]
  /\ UNCHANGED <<mpVars, daVars, lb, sm, rm, ns, fd, cap>>

\* Lines 126-130: the container and its two levels are read.
LA_ReadMesh ==
  /\ la.pc = "MEDFileMesh.New"
  /\ la' = IF FileExists(disk, "TargetMesh2.med")
           THEN Only({[la EXCEPT !.pc = "getGrpNonEmptyLevels",
                                 !.meshMEDFileRead = mm,
                                 !.meshRead0 = LoadUMesh(mm, 0),
                                 !.meshRead1 = LoadUMesh(mm, -1)] :
                      mm \in {ReadMEDFileMesh(disk, "TargetMesh2.med")}})
           ELSE [la EXCEPT !.pc = "InterpKernelException@126"]
  /\ UNCHANGED <<mpVars, daVars, disk, io_log, lb, sm, rm, ns, fd, cap>>

\* Line 142: meshMEDFileRead.getGrpNonEmptyLevels("grp0_Lev0")
LA_GetGrpNonEmptyLevels ==
  /\ la.pc = "getGrpNonEmptyLevels"
  /\ la' = [la EXCEPT !.pc = "getGroupArr",
                      !.nonEmptyLevels = getGrpNonEmptyLevels(la.meshMEDFileRead, grp0_0.name)]
  /\ UNCHANGED <<mpVars, daVars, disk, io_log, lb, sm, rm, ns, fd, cap>>

\* Line 146: grp0_0_read = meshMEDFileRead.getGroupArr(0, "grp0_Lev0")
LA_GetGroupArr ==
  /\ la.pc = "getGroupArr"
  /\ la' = IF grp0_0.name \in GroupNamesAtLevel(la.meshMEDFileRead, 0)
           THEN [la EXCEPT !.pc = "NewField",
                           !.grp0_0_read = getGroupArr(la.meshMEDFileRead, 0, grp0_0.name)]
           ELSE [la EXCEPT !.pc = "InterpKernelException@146"]
  /\ UNCHANGED <<mpVars, daVars, disk, io_log, lb, sm, rm, ns, fd, cap>>

\* Lines 156-160: the field f on cells at time (5.6, 7, 8).
LA_NewField ==
  /\ la.pc = "NewField"
  /\ la' = [la EXCEPT !.pc = "fMEDFile.write",
                      !.f = [type |-> "ON_CELLS", name |-> "AFieldName",
                             time |-> <<56, 7, 8>>, mesh |-> la.targetMesh,
                             array |-> computeCellCenterOfMass(la.targetMesh)]]
  /\ UNCHANGED <<mpVars, daVars, disk, io_log, lb, sm, rm, ns, fd, cap>>

\* Lines 164-171: fMEDFile.setFieldNoProfileSBT(f);
\* fMEDFile.write("TargetMesh2.med", 0)
LA_WriteField ==
  /\ la.pc = "fMEDFile.write"
  /\ io_log' = Append(io_log, LogEntry(0, "TargetMesh2.med", la.f.mesh.name, disk))
  /\ IF CanAppend(disk, "TargetMesh2.med", la.f.mesh.name)
     THEN /\ disk' = AppendField(disk, "TargetMesh2.med",
                                 StoredField(la.f, FieldData(la.f), <<>>))
          /\ la' = [la EXCEPT !.pc = "MEDFileField1TS"]
     ELSE /\ disk' = disk
          /\ la' = [la EXCEPT !.pc = "InterpKernelException@169"]
  /\ UNCHANGED <<mpVars, daVars, lb, sm, rm, ns, fd, cap>>

\* Lines 178-184: the field is read, on the container read before (fRead1)
\* and on the mesh read from the file again (fRead2).
LA_ReadField ==
  /\ la.pc = "MEDFileField1TS"
  /\ la' = IF HasField(disk, "TargetMesh2.med", la.f.name, 7, 8)
           THEN Only({[la EXCEPT !.pc = "buildSubPart",
                                 !.fRead1 = [type |-> "ON_CELLS", name |-> sf.name,
                                             time |-> sf.time,
                                             mesh |-> LoadUMesh(la.meshMEDFileRead, 0),
                                             array |-> LoadCellValues(sf.data)],
                                 !.fRead2 = ReadFieldCell(disk, "TargetMesh2.med", sf.mesh, 0,
                                                          la.f.name, 7, 8)] :
                      sf \in {GetField(disk, "TargetMesh2.med", la.f.name, 7, 8)}})
           ELSE [la EXCEPT !.pc = "InterpKernelException@178"]
  /\ UNCHANGED <<mpVars, daVars, disk, io_log, lb, sm, rm, ns, fd, cap>>

\* Lines 198-201: fPart = f.buildSubPart(pfl); fPart.setName("fPart")
LA_BuildSubPart ==
  /\ la.pc = "buildSubPart"
  /\ la' = [la EXCEPT !.pc = "fMEDFile2.write",
                      !.fPart = [buildSubPart(la.f, pfl.ids) EXCEPT !.name = "fPart"]]
  /\ UNCHANGED <<mpVars, daVars, disk, io_log, lb, sm, rm, ns, fd, cap>>

\* Lines 205-211: fMEDFile2.setFieldProfile(fPart, meshMEDFileRead, 0, pfl);
\* fMEDFile2.write("TargetMesh2.med", 0).  The field refers to the mesh of
\* the container.
LA_WriteFieldProfile ==
  /\ la.pc = "fMEDFile2.write"
  /\ io_log' = Append(io_log, LogEntry(0, "TargetMesh2.med", la.meshMEDFileRead.name, disk))
  /\ IF CanAppend(disk, "TargetMesh2.med", la.meshMEDFileRead.name)
     THEN /\ disk' = AppendField(disk, "TargetMesh2.med",
                        StoredField([la.fPart EXCEPT !.mesh = la.meshRead0],
                                    ProfileData(la.meshRead0.cells, pfl.ids, la.fPart.array),
                                    pfl.name))
          /\ la' = [la EXCEPT !.pc = "getFieldWithProfile"]
     ELSE /\ disk' = disk
          /\ la' = [la EXCEPT !.pc = "InterpKernelException@209"]
  /\ UNCHANGED <<mpVars, daVars, lb, sm, rm, ns, fd, cap>>

\* Lines 215-216: fPartRead, pflRead = getFieldWithProfile(ON_CELLS, 0,
\* meshMEDFileRead) of the field "fPart" at (7, 8).
LA_GetFieldWithProfile ==
  /\ la.pc = "getFieldWithProfile"
  /\ la' = IF HasField(disk, "TargetMesh2.med", la.fPart.name, 7, 8)
           THEN Only({[la EXCEPT !.pc = "end", !.fPartRead = r.array, !.pflRead = r.pfl] :
                      r \in {getFieldWithProfile(
                               GetField(disk, "TargetMesh2.med", la.fPart.name, 7, 8),
                               la.meshRead0.cells)}})
           ELSE [la EXCEPT !.pc = "InterpKernelException@215"]
  /\ UNCHANGED <<mpVars, daVars, disk, io_log, lb, sm, rm, ns, fd, cap>>

LANext ==
  \/ LA_BuildDescendingConnectivity
  \/ LA_SetMeshAtLevel
  \/ LA_Write
  \/ LA_SetGroupsAtLevel
  \/ LA_Write2
  \/ LA_ReadMesh
  \/ LA_GetGrpNonEmptyLevels
  \/ LA_GetGroupArr
  \/ LA_NewField
  \/ LA_WriteField
  \/ LA_ReadField
  \/ LA_BuildSubPart
  \/ LA_WriteFieldProfile
  \/ LA_GetFieldWithProfile

(***************************************************************************)
(* Claims on LecEcrAvancee.py (checked under SpecIO).                      *)
(***************************************************************************)
\* The statements of LecEcrAvancee.py in the order they run.
LAOrder == <<"buildDescendingConnectivity", "setMeshAtLevel", "write", "setGroupsAtLevel",
             "write2", "MEDFileMesh.New", "getGrpNonEmptyLevels", "getGroupArr", "NewField",
             "fMEDFile.write", "MEDFileField1TS", "buildSubPart", "fMEDFile2.write",
             "getFieldWithProfile", "end">>

\* The statement at position stage has been executed without raising.
LAAfter(stage) ==
  /\ \E k \in 1..Len(LAOrder) : LAOrder[k] = la.pc
  /\ (CHOOSE k \in 1..Len(LAOrder) : LAOrder[k] = la.pc) >
       (CHOOSE k \in 1..Len(LAOrder) : LAOrder[k] = stage)

LARaised ==
  la.pc \in {"InterpKernelException@93", "InterpKernelException@105",
             "InterpKernelException@126", "InterpKernelException@146",
             "InterpKernelException@169", "InterpKernelException@178",
             "InterpKernelException@209", "InterpKernelException@215"}

\* C14: the group grp0_Lev0 registered at level 0, written with the
\* container by the second write from scratch and reread, comes back with
\* the same ids in the same order, level 0 is among the non-empty levels
\* reported for its name, and the file holds the groups of both levels.
C14_GroupRoundTrip ==
  /\ la.pc \notin {"InterpKernelException@105", "InterpKernelException@126",
                   "InterpKernelException@146"}
  /\ LAAfter("write2") =>
       /\ Len(disk["TargetMesh2.med"].meshes) = 1
       /\ GroupNamesAtLevel(disk["TargetMesh2.med"].meshes[1], 0) = {grp0_0.name, grp1_0.name}
       /\ GroupNamesAtLevel(disk["TargetMesh2.med"].meshes[1], -1) =
            {grp0_M1.name, grp1_M1.name, grp2_M1.name}
  /\ LAAfter("getGrpNonEmptyLevels") => 0 \in la.nonEmptyLevels
  /\ LAAfter("getGroupArr") => la.grp0_0_read = grp0_0.ids

\* C14 witness: the group was read back from the file written twice from
\* scratch.
C14_Witness ==
  /\ la.pc = "NewField"
  /\ la.grp0_0_read = <<0, 1, 3>>
  /\ la.nonEmptyLevels = {0}
  /\ Len(io_log) = 2

\* C15: the field restricted to the profile [1, 2, 3] and written with it
\* is read back as the pair (values, profile ids): the ids equal the profile
\* supplied and the values equal the values of the sub-field.
C15_ProfileRoundTrip ==
  /\ la.pc \notin {"InterpKernelException@209", "InterpKernelException@215"}
  /\ LAAfter("getFieldWithProfile") =>
       /\ la.pflRead = pfl.ids
       /\ la.fPartRead = la.fPart.array
       /\ la.fPartRead = [k \in 1..Len(pfl.ids) |-> la.f.array[pfl.ids[k] + 1]]

\* C15 witness: the profile lies on one triangle and two quadrangles and was
\* read back.
C15_Witness ==
  /\ la.pc = "end"
  /\ la.pflRead = <<1, 2, 3>>
  /\ Len(la.fPartRead) = 3
  /\ la.meshRead0.cells[2].type = "NORM_TRI3"
  /\ la.meshRead0.cells[3].type = "NORM_QUAD4"

(***************************************************************************)
(* SplitMergeAvancee.py.  The grid has smN cells a side where the script   *)
(* has 30; lengths are in units of one sixth of a cell side, so that the   *)
(* point (1.0, 1.0) of line 56 is (3 * smN, 3 * smN).  The upper corner of *)
(* the bounding box of line 74 is drawn at the start.  sm holds the        *)
(* script's position pc and its variables under their names.               *)
(***************************************************************************)
smN == 2

\* The side of a cell.
CellSide == 6

\* Lines 33-36: the nodes of the structured mesh, x running first.
GridCoords ==
  [k \in 1..((smN + 1) * (smN + 1)) |->
     <<CellSide * ((k - 1) % (smN + 1)), CellSide * ((k - 1) \div (smN + 1))>>]

\* Line 37: buildUnstructured(), cell c (0-based) of the grid as a QUAD4.
GridCell(c) ==
  [type |-> "NORM_QUAD4",
   conn |-> << (c % smN) + 1 + (c \div smN) * (smN + 1),
               (c % smN) + (c \div smN) * (smN + 1),
               (c % smN) + ((c \div smN) + 1) * (smN + 1),
               (c % smN) + 1 + ((c \div smN) + 1) * (smN + 1) >>]

\* m0[start::2]: the grid cells start, start + 2, ... on the same nodes.
GridSlice(start) ==
  [name |-> "", meshDim |-> 2, coords |-> GridCoords,
   cells |-> [k \in 1..((smN * smN - start + 1) \div 2) |-> GridCell(start + 2 * (k - 1))]]

\* A plausible slip: only the first triangle of every QUAD4 is kept.
simplexize_FirstTriangle(mesh0) ==
  [mesh0 EXCEPT !.cells =
     [k \in 1..Len(mesh0.cells) |->
        [type |-> "NORM_TRI3", conn |-> SubSeq(mesh0.cells[k].conn, 1, 3)]]]

\* Line 39: simplexize(0), every QUAD4 (a, b, c, d) becomes the triangles
\* (a, b, c) and (a, c, d).
simplexize(mesh0) ==
  [mesh0 EXCEPT !.cells =
     [k \in 1..(2 * Len(mesh0.cells)) |->
        IF k % 2 = 1
        THEN [type |-> "NORM_TRI3",
              conn |-> SubSeq(mesh0.cells[(k + 1) \div 2].conn, 1, 3)]
        ELSE [type |-> "NORM_TRI3",
              conn |-> << mesh0.cells[k \div 2].conn[1], mesh0.cells[k \div 2].conn[3],
                          mesh0.cells[k \div 2].conn[4] >>]]]

\* mc.MEDCouplingUMesh.MergeUMeshes([a, b]): the nodes and the cells of a,
\* then those of b.
MergeUMeshes(a, b) ==
  [name |-> a.name, meshDim |-> a.meshDim, coords |-> a.coords \o b.coords,
   cells |-> a.cells \o
             [k \in 1..Len(b.cells) |->
                [type |-> b.cells[k].type,
                 conn |-> [q \in 1..Len(b.cells[k].conn) |->
                             b.cells[k].conn[q] + Len(a.coords)]]]]

\* Lines 32-43: m0.
BuildM0 == [MergeUMeshes(simplexize(GridSlice(0)), GridSlice(1)) EXCEPT !.name = "mesh"]

\* The exponent of lines 56 and 63 at a point, negated; the value of the
\* field is its exponential, which is one-to-one.
Analytic(p) ==
  (p[1] - 3 * smN) * (p[1] - 3 * smN) + (p[2] - 3 * smN) * (p[2] - 3 * smN)

\* fillFromAnalytic on cells: at the centre of mass of every cell.
FillCellsFromAnalytic(mesh0) ==
  [c \in 1..Len(mesh0.cells) |-> Analytic(CellCenter(mesh0.coords, mesh0.cells[c].conn))]

\* fillFromAnalytic on nodes.
FillNodesFromAnalytic(mesh0) == [k \in 1..Len(mesh0.coords) |-> Analytic(mesh0.coords[k])]

\* The points of the nodes of cell c (1-based) in the order of its
\* connectivity.
CellPoints(mesh0, c) ==
  [k \in 1..Len(mesh0.cells[c].conn) |-> mesh0.coords[mesh0.cells[c].conn[k] + 1]]

\* m0.getCellsInBoundingBox([(0, bx), (0, by)], 1e-10): the ids, increasing,
\* of the cells whose bounding box meets the box; the precision makes a cell
\* that touches the box belong to it.
getCellsInBoundingBox(mesh0, bx, by) ==
  Only({[k \in 1..Len(pos) |-> pos[k] - 1] :
        pos \in {SelectSeq([c \in 1..Len(mesh0.cells) |-> c],
                   LAMBDA c :
                     /\ \E k \in 1..Len(mesh0.cells[c].conn) : CellPoints(mesh0, c)[k][1] <= bx
                     /\ \E k \in 1..Len(mesh0.cells[c].conn) : CellPoints(mesh0, c)[k][1] >= 0
                     /\ \E k \in 1..Len(mesh0.cells[c].conn) : CellPoints(mesh0, c)[k][2] <= by
                     /\ \E k \in 1..Len(mesh0.cells[c].conn) : CellPoints(mesh0, c)[k][2] >= 0)}})

\* A plausible slip: the complement stops one id short.
buildComplement_OneShort(ids, n) ==
  Only({[k \in 1..Len(r) |-> r[k] - 1] :
        r \in {SelectSeq([c \in 1..(n - 1) |-> c], LAMBDA c : (c - 1) \notin Range(ids))}})

\* proc0.buildComplement(n): the ids of 0..n-1 not in ids, increasing.
buildComplement(ids, n) ==
  Only({[k \in 1..Len(r) |-> r[k] - 1] :
        r \in {SelectSeq([c \in 1..n |-> c], LAMBDA c : (c - 1) \notin Range(ids))}})

\* The nodes (0-based, increasing) the cells ids of a mesh use.
UsedNodes(mesh0, ids) ==
  SelectSeq([k \in 1..Len(mesh0.coords) |-> k - 1],
            LAMBDA n : \E q \in 1..Len(ids) : n \in Range(mesh0.cells[ids[q] + 1].conn))

\* The 1-based position of v in the sequence s.
IndexOf(s, v) == CHOOSE k \in 1..Len(s) : s[k] = v

\* A plausible slip: the part keeps all the nodes of the mesh.
NodeFieldPart_AllNodes(f, ids) ==
  [f EXCEPT !.mesh = MeshPart(f.mesh, ids)]

\* nodeField[ids]: the field on the cells ids and on the nodes they use,
\* renumbered in increasing order (buildPartAndReduceNodes).
NodeFieldPart(f, ids) ==
  Only({[f EXCEPT
           !.mesh = [name |-> f.mesh.name, meshDim |-> f.mesh.meshDim,
                     coords |-> [k \in 1..Len(used) |-> f.mesh.coords[used[k] + 1]],
                     cells |-> [q \in 1..Len(ids) |->
                                  [type |-> f.mesh.cells[ids[q] + 1].type,
                                   conn |-> [k \in 1..Len(f.mesh.cells[ids[q] + 1].conn) |->
                                               IndexOf(used, f.mesh.cells[ids[q] + 1].conn[k]) - 1]]]],
           !.array = [k \in 1..Len(used) |-> f.array[used[k] + 1]]] :
        used \in {UsedNodes(f.mesh, ids)}})

\* A plausible slip: the part takes the first values of the array.
CellFieldPart_FirstValues(f, ids, mesh0) ==
  [f EXCEPT !.mesh = mesh0, !.array = [q \in 1..Len(ids) |-> f.array[q]]]

\* cellField[ids] followed by setMesh(mesh0): the values of the cells ids.
CellFieldPart(f, ids, mesh0) ==
  [f EXCEPT !.mesh = mesh0, !.array = [q \in 1..Len(ids) |-> f.array[ids[q] + 1]]]

\* mc.MEDCouplingFieldDouble.MergeFields([a, b])
MergeFields(a, b) ==
  [a EXCEPT !.mesh = MergeUMeshes(a.mesh, b.mesh), !.array = a.array \o b.array]

\* The first node (1-based) at the point of node k (1-based).
FirstNodeAt(coords, k) == CHOOSE q \in 1..k : coords[q] = coords[k] /\ \A r \in 1..(q - 1) : coords[r] # coords[k]

\* mergeNodes: old node (1-based) to new id (0-based); the nodes at one
\* point get the id of the first of them, the ids follow the first nodes.
MergeNodesO2N(coords) ==
  Only({[k \in 1..Len(coords) |-> Cardinality({q \in 1..(first[k] - 1) : first[q] = q})] :
        first \in {[k \in 1..Len(coords) |-> FirstNodeAt(coords, k)]}})

\* f.mergeNodes(1e-10) raises when the values of two merged nodes differ.
CanMergeNodes(f) ==
  \A k \in 1..Len(f.mesh.coords) : f.array[k] = f.array[FirstNodeAt(f.mesh.coords, k)]

\* f.mergeNodes(1e-10)
mergeNodes(f) ==
  Only({Only({[f EXCEPT
                 !.mesh = [name |-> f.mesh.name, meshDim |-> f.mesh.meshDim,
                           coords |-> [n \in 1..Len(firsts) |-> f.mesh.coords[firsts[n]]],
                           cells |-> [c \in 1..Len(f.mesh.cells) |->
                                        [type |-> f.mesh.cells[c].type,
                                         conn |-> [k \in 1..Len(f.mesh.cells[c].conn) |->
                                                     oldToNew[f.mesh.cells[c].conn[k] + 1]]]]],
                 !.array = [n \in 1..Len(firsts) |-> f.array[firsts[n]]]] :
              firsts \in {SelectSeq([k \in 1..Len(oldToNew) |-> k],
                                    LAMBDA k : FirstNodeAt(f.mesh.coords, k) = k)}}) :
        oldToNew \in {MergeNodesO2N(f.mesh.coords)}})

\* The least element of a set of integers.
MinOf(S) == CHOOSE x \in S : \A y \in S : x <= y

\* checkGeoEquivalWith, level 10, on cells: the cells (1-based) of mesh b
\* with the type and the points, in order, of cell c of mesh a.
CellCounterparts(a, c, b) ==
  {r \in 1..Len(b.cells) :
     /\ b.cells[r].type = a.cells[c].type
     /\ CellPoints(b, r) = CellPoints(a, c)}

\* The nodes (1-based) of mesh b at the point of node k of mesh a.
NodeCounterparts(a, k, b) == {r \in 1..Len(b.coords) : b.coords[r] = a.coords[k]}

\* cpy.substractInPlaceDM(other, 10, 1e-12) is possible: every node and
\* every cell of cpy has its counterpart in other, and the correspondence
\* on the entities the field lies on is one to one.
CanSubstractInPlaceDM(cpy, other) ==
  /\ \A k \in 1..Len(cpy.mesh.coords) : NodeCounterparts(cpy.mesh, k, other.mesh) # {}
  /\ \A c \in 1..Len(cpy.mesh.cells) : CellCounterparts(cpy.mesh, c, other.mesh) # {}
  /\ Len(cpy.array) = Len(other.array)
  /\ IF cpy.type = "ON_CELLS"
     THEN \A r \in 1..Len(other.mesh.cells) :
            Cardinality({c \in 1..Len(cpy.mesh.cells) :
                           r = MinOf(CellCounterparts(cpy.mesh, c, other.mesh))}) = 1
     ELSE \A r \in 1..Len(other.mesh.coords) :
            Cardinality({k \in 1..Len(cpy.mesh.coords) :
                           r = MinOf(NodeCounterparts(cpy.mesh, k, other.mesh))}) = 1

\* cpy.substractInPlaceDM(other, 10, 1e-12): the array of cpy renumbered
\* onto the mesh of other, minus the array of other.
substractInPlaceDM(cpy, other) ==
  [cpy EXCEPT
     !.mesh = other.mesh,
     !.array =
       IF cpy.type = "ON_CELLS"
       THEN [r \in 1..Len(other.array) |->
               cpy.array[CHOOSE c \in 1..Len(cpy.mesh.cells) :
                           r = MinOf(CellCounterparts(cpy.mesh, c, other.mesh))] - other.array[r]]
       ELSE [r \in 1..Len(other.array) |->
               cpy.array[CHOOSE k \in 1..Len(cpy.mesh.coords) :
                           r = MinOf(NodeCounterparts(cpy.mesh, k, other.mesh))] - other.array[r]]]

\* DataArrayDouble.abs()
AbsArray(arr) == [k \in 1..Len(arr) |-> IF arr[k] < 0 THEN -arr[k] ELSE arr[k]]

\* DataArrayDouble.isUniform(0.0, 1e-12)
isUniform(arr, v) == \A k \in 1..Len(arr) : arr[k] = v

\* load_mesh_and_fields, line 157: mc.MEDFileMesh.New(fname) of every file.
LoadMeshes(d, fileNames) == [p \in 1..Len(fileNames) |-> ReadMEDFileMesh(d, fileNames[p])]

\* load_mesh_and_fields, line 158: mc.MEDFileFields.New(fname) of every
\* file, the steps in the order they were written.
LoadFields(d, fileNames) == [p \in 1..Len(fileNames) |-> d[fileNames[p]].fields]

\* mML.getNonEmptyLevels()
getNonEmptyLevels(mm) == {l \in MeshLevels : mm.levels[l] # NoLevel}

\* m.sortCellsInMEDFileFrmt(): the old-to-new map (0-based) that orders the
\* cells by geometric type, the cells of one type keeping their order.
sortCellsInMEDFileFrmt(cells) ==
  Only({[old \in 1..Len(cells) |-> IndexOf(order, old) - 1] : order \in {FileCellOrder(cells)}})

\* The cells renumbered by an old-to-new map.
RenumberCells(cells, oldToNew) ==
  [n \in 1..Len(cells) |-> cells[CHOOSE old \in 1..Len(cells) : oldToNew[old] = n - 1]]

\* merge_meshes, lines 166-170: the meshes of one level merged, on the
\* aggregated coordinates.
MergedLevel(msML, lev) == MergeUMeshes(LoadUMesh(msML[1], lev), LoadUMesh(msML[2], lev))

\* merge_meshes, lines 162-173: the merged container and the old-to-new map
\* of every level.
merge_meshes(msML) ==
  [o2nML |-> [l \in getNonEmptyLevels(msML[1]) |->
                sortCellsInMEDFileFrmt(MergedLevel(msML, l).cells)],
   mergeMLMesh |->
     StoredMesh(msML[1].name, msML[1].meshDim, msML[1].coords \o msML[2].coords,
                [l \in MeshLevels |->
                   IF l \in getNonEmptyLevels(msML[1])
                   THEN Only({StoreCells(RenumberCells(merged.cells, sortCellsInMEDFileFrmt(merged.cells))) :
                              merged \in {MergedLevel(msML, l)}})
                   ELSE NoLevel],
                [l \in MeshLevels |-> <<>>])]

\* A plausible slip in the branch of the fields on nodes: the values of the
\* first partition only.
aggregate_data_NodesOfFirst(fts, typp) ==
  IF typp = "ON_CELLS"
  THEN Flatten([p \in 1..Len(fts) |->
                  SelectSeq(fts[p].data, LAMBDA chunk : chunk # <<>>)], Len(fts))
  ELSE <<fts[1].data>>

\* aggregate_data, lines 202-223: for every partition in turn the values of
\* every geometric type it holds (on cells), or its values on nodes.
aggregate_data(fts, typp) ==
  IF typp = "ON_CELLS"
  THEN Flatten([p \in 1..Len(fts) |->
                  SelectSeq(fts[p].data, LAMBDA chunk : chunk # <<>>)], Len(fts))
  ELSE [p \in 1..Len(fts) |-> fts[p].data]

\* A plausible slip: the aggregated array is left in partition order.
renumberInPlace_Skipped(arr, oldToNew) == arr

\* arr.renumberInPlace(o2n): the value at i goes to oldToNew[i].
renumberInPlace(arr, oldToNew) ==
  [n \in 1..Len(arr) |-> arr[CHOOSE old \in 1..Len(arr) : oldToNew[old] = n - 1]]

\* The step of the name and time step of sf among the steps fs.
SameStep(fs, sf) ==
  fs[CHOOSE k \in 1..Len(fs) : fs[k].name = sf.name /\ fs[k].time = sf.time]

\* merge_fields, lines 184-190: the merged array of one step on level lev.
MergedArray(fsML, sf, o2nML, lev) ==
  Only({IF sf.type = "ON_CELLS" /\ lev \in DOMAIN o2nML
        THEN renumberInPlace(arr, o2nML[lev])
        ELSE arr :
        arr \in {Only({Flatten(arr1s, Len(arr1s)) :
                       arr1s \in {aggregate_data([p \in 1..Len(fsML) |-> SameStep(fsML[p], sf)],
                                                 sf.type)}})}})

\* mcf.FieldConsistencyLight(), line 196: the array has one value a cell,
\* or one a node, of the level.
FieldConsistencyLight(typp, arr, mm, lev) ==
  Len(arr) = IF typp = "ON_CELLS" THEN NbCellsAtLevel(mm, lev) ELSE Len(mm.coords)

\* merge_fields, lines 176-199: every step of the first file merged with
\* the same step of the other files, as appendFieldNoProfileSBT stores it.
\* The files hold the one level 0.
merge_fields(fsML, mergeMLMesh, o2nML) ==
  [k \in 1..Len(fsML[1]) |->
     Only({[name |-> fsML[1][k].name, type |-> fsML[1][k].type, mesh |-> mergeMLMesh.name,
            time |-> fsML[1][k].time,
            data |-> IF fsML[1][k].type = "ON_CELLS"
                     THEN StoreCellValues(LoadCells(mergeMLMesh.levels[0]), arr)
                     ELSE arr,
            pfl |-> <<>>] :
           arr \in {MergedArray(fsML, fsML[1][k], o2nML, 0)}})]

CanMergeFields(fsML, mergeMLMesh, o2nML) ==
  /\ DOMAIN o2nML = {0}
  /\ \A k \in 1..Len(fsML[1]) :
       /\ \A p \in 1..Len(fsML) :
            \E q \in 1..Len(fsML[p]) :
              fsML[p][q].name = fsML[1][k].name /\ fsML[p][q].time = fsML[1][k].time
       /\ FieldConsistencyLight(fsML[1][k].type, MergedArray(fsML, fsML[1][k], o2nML, 0),
                                mergeMLMesh, 0)

RECURSIVE AppendFields(_, _, _, _)
\* mergeMLFields.write(fileName, 0): the first k steps appended.
AppendFields(d, fileName, fs, k) ==
  IF k = 0 THEN d ELSE AppendField(AppendFields(d, fileName, fs, k - 1), fileName, fs[k])

\* The upper corners of the bounding box of line 74 the model draws from:
\* every half cell side of the grid.
BoxCorners == {(CellSide \div 2) * k : k \in 0..(2 * smN)}

SMIdle == sm = [pc |-> "off"]

\* Lines 32-64: m0, cellField and nodeField; the box is drawn so that
\* neither part is empty.
SMInit ==
  \E bx \in BoxCorners, by \in BoxCorners :
    /\ Len(getCellsInBoundingBox(BuildM0, bx, by)) \in 1..(Len(BuildM0.cells) - 1)
    /\ sm = [pc |-> "getCellsInBoundingBox", bx |-> bx, by |-> by, m0 |-> BuildM0,
             cellField |-> [type |-> "ON_CELLS", name |-> "CellField", time |-> <<56, 5, 6>>,
                            mesh |-> BuildM0, array |-> FillCellsFromAnalytic(BuildM0)],
             nodeField |-> [type |-> "ON_NODES", name |-> "NodeField", time |-> <<56, 5, 6>>,
                            mesh |-> BuildM0, array |-> FillNodesFromAnalytic(BuildM0)],
             proc0 |-> None, proc1 |-> None,
             nodeField0 |-> None, cellField0 |-> None,
             nodeField1 |-> None, cellField1 |-> None,
             cellField_read |-> None, cellFieldCpy |-> None, cellUniform |-> None,
             nodeField0_read |-> None, nodeField1_read |-> None,
             nodeField_read |-> None, nodeFieldCpy |-> None, nodeUniform |-> None,
             msML |-> None, fsML |-> None, mergeMLMesh |-> None, o2nML |-> None,
             mergeMLFields |-> None]

\* Lines 74-75: proc0 and proc1.
SM_Partition ==
  /\ sm.pc = "getCellsInBoundingBox"
  /\ sm' = Only({[sm EXCEPT !.pc = "nodeField[proc]",
                            !.proc0 = p0,
                            !.proc1 = buildComplement(p0, Len(sm.m0.cells))] :
                 p0 \in {getCellsInBoundingBox(sm.m0, sm.bx, sm.by)}})
  /\ UNCHANGED <<mpVars, daVars, disk, io_log, lb, la, rm, ns, fd, cap>>

\* Lines 84-89: the parts of the two fields, the cell field of a part on
\* the mesh of its node field.
SM_SubFields ==
  /\ sm.pc = "nodeField[proc]"
  /\ sm' = Only({[sm EXCEPT !.pc = "WriteField0",
                            !.nodeField0 = n0, !.nodeField1 = n1,
                            !.cellField0 = CellFieldPart(sm.cellField, sm.proc0, n0.mesh),
                            !.cellField1 = CellFieldPart(sm.cellField, sm.proc1, n1.mesh)] :
                 n0 \in {NodeFieldPart(sm.nodeField, sm.proc0)},
                 n1 \in {NodeFieldPart(sm.nodeField, sm.proc1)}})
  /\ UNCHANGED <<mpVars, daVars, disk, io_log, lb, la, rm, ns, fd, cap>>

\* Line 92: mc.WriteField("proc0.med", nodeField0, True)
SM_WriteField0 ==
  /\ sm.pc = "WriteField0"
  /\ io_log' = Append(io_log, LogEntry(2, "proc0.med", sm.nodeField0.mesh.name, disk))
  /\ IF IsSortedInMEDFileFrmt(sm.nodeField0.mesh.cells)
     THEN /\ disk' = WriteField(disk, "proc0.med", sm.nodeField0)
          /\ sm' = [sm EXCEPT !.pc = "WriteFieldUsingAlreadyWrittenMesh0"]
     ELSE /\ disk' = disk
          /\ sm' = [sm EXCEPT !.pc = "InterpKernelException@92"]
  /\ UNCHANGED <<mpVars, daVars, lb, la, rm, ns, fd, cap>>

\* Line 93: mc.WriteFieldUsingAlreadyWrittenMesh("proc0.med", cellField0)
SM_WriteFieldUsingAlreadyWrittenMesh0 ==
  /\ sm.pc = "WriteFieldUsingAlreadyWrittenMesh0"
  /\ io_log' = Append(io_log, LogEntry(0, "proc0.med", sm.cellField0.mesh.name, disk))
  /\ IF CanAppend(disk, "proc0.med", sm.cellField0.mesh.name)
     THEN /\ disk' = WriteFieldUsingAlreadyWrittenMesh(disk, "proc0.med", sm.cellField0)
          /\ sm' = [sm EXCEPT !.pc = "WriteField1"]
     ELSE /\ disk' = disk
          /\ sm' = [sm EXCEPT !.pc = "InterpKernelException@93"]
  /\ UNCHANGED <<mpVars, daVars, lb, la, rm, ns, fd, cap>>

\* Line 96: mc.WriteField("proc1.med", nodeField1, True)
SM_WriteField1 ==
  /\ sm.pc = "WriteField1"
  /\ io_log' = Append(io_log, LogEntry(2, "proc1.med", sm.nodeField1.mesh.name, disk))
  /\ IF IsSortedInMEDFileFrmt(sm.nodeField1.mesh.cells)
     THEN /\ disk' = WriteField(disk, "proc1.med", sm.nodeField1)
          /\ sm' = [sm EXCEPT !.pc = "WriteFieldUsingAlreadyWrittenMesh1"]
     ELSE /\ disk' = disk
          /\ sm' = [sm EXCEPT !.pc = "InterpKernelException@96"]
  /\ UNCHANGED <<mpVars, daVars, lb, la, rm, ns, fd, cap>>

\* Line 97: mc.WriteFieldUsingAlreadyWrittenMesh("proc1.med", cellField1)
SM_WriteFieldUsingAlreadyWrittenMesh1 ==
  /\ sm.pc = "WriteFieldUsingAlreadyWrittenMesh1"
  /\ io_log' = Append(io_log, LogEntry(0, "proc1.med", sm.cellField1.mesh.name, disk))
  /\ IF CanAppend(disk, "proc1.med", sm.cellField1.mesh.name)
     THEN /\ disk' = WriteFieldUsingAlreadyWrittenMesh(disk, "proc1.med", sm.cellField1)
          /\ sm' = [sm EXCEPT !.pc = "ReadFieldCell"]
     ELSE /\ disk' = disk
          /\ sm' = [sm EXCEPT !.pc = "InterpKernelException@97"]
  /\ UNCHANGED <<mpVars, daVars, lb, la, rm, ns, fd, cap>>

\* Lines 104-108: the two cell fields are read and merged.
SM_ReadFieldCell ==
  /\ sm.pc = "ReadFieldCell"
  /\ sm' = IF /\ HasField(disk, "proc0.med", "CellField", 5, 6)
              /\ HasField(disk, "proc1.med", "CellField", 5, 6)
              /\ HasMesh(disk, "proc0.med", "mesh") /\ HasMesh(disk, "proc1.med", "mesh")
           THEN [sm EXCEPT !.pc = "cellFieldCpy.substractInPlaceDM",
                           !.cellField_read =
                              MergeFields(
                                ReadFieldCell(disk, "proc0.med", "mesh", 0, "CellField", 5, 6),
                                ReadFieldCell(disk, "proc1.med", "mesh", 0, "CellField", 5, 6))]
           ELSE [sm EXCEPT !.pc = "InterpKernelException@104"]
  /\ UNCHANGED <<mpVars, daVars, disk, io_log, lb, la, rm, ns, fd, cap>>

\* Lines 115-118: cellFieldCpy = cellField.deepCopy();
\* substractInPlaceDM(cellField_read, 10, 1e-12); abs(); isUniform(0, 1e-12)
SM_SubstractCell ==
  /\ sm.pc = "cellFieldCpy.substractInPlaceDM"
  /\ sm' = IF CanSubstractInPlaceDM(sm.cellField, sm.cellField_read)
           THEN Only({[sm EXCEPT !.pc = "ReadFieldNode",
                                 !.cellFieldCpy = [cpy EXCEPT !.array = AbsArray(cpy.array)],
                                 !.cellUniform = isUniform(AbsArray(cpy.array), 0)] :
                      cpy \in {substractInPlaceDM(sm.cellField, sm.cellField_read)}})
           ELSE [sm EXCEPT !.pc = "InterpKernelException@116"]
  /\ UNCHANGED <<mpVars, daVars, disk, io_log, lb, la, rm, ns, fd, cap>>

\* Lines 122-126: the two node fields are read and merged.
SM_ReadFieldNode ==
  /\ sm.pc = "ReadFieldNode"
  /\ sm' = IF /\ HasField(disk, "proc0.med", "NodeField", 5, 6)
              /\ HasField(disk, "proc1.med", "NodeField", 5, 6)
              /\ HasMesh(disk, "proc0.med", "mesh") /\ HasMesh(disk, "proc1.med", "mesh")
           THEN Only({[sm EXCEPT !.pc = "mergeNodes",
                                 !.nodeField0_read = n0, !.nodeField1_read = n1,
                                 !.nodeField_read = MergeFields(n0, n1)] :
                      n0 \in {ReadFieldNode(disk, "proc0.med", "mesh", 0, "NodeField", 5, 6)},
                      n1 \in {ReadFieldNode(disk, "proc1.med", "mesh", 0, "NodeField", 5, 6)}})
           ELSE [sm EXCEPT !.pc = "InterpKernelException@122"]
  /\ UNCHANGED <<mpVars, daVars, disk, io_log, lb, la, rm, ns, fd, cap>>

\* Lines 133-135: nodeField_read.mergeNodes(1e-10);
\* nodeFieldCpy = nodeField.deepCopy(); nodeFieldCpy.mergeNodes(1e-10)
SM_MergeNodes ==
  /\ sm.pc = "mergeNodes"
  /\ sm' = IF ~CanMergeNodes(sm.nodeField_read)
           THEN [sm EXCEPT !.pc = "InterpKernelException@133"]
           ELSE IF ~CanMergeNodes(sm.nodeField)
           THEN [sm EXCEPT !.pc = "InterpKernelException@135"]
           ELSE [sm EXCEPT !.pc = "nodeFieldCpy.substractInPlaceDM",
                           !.nodeField_read = mergeNodes(sm.nodeField_read),
                           !.nodeFieldCpy = mergeNodes(sm.nodeField)]
  /\ UNCHANGED <<mpVars, daVars, disk, io_log, lb, la, rm, ns, fd, cap>>

\* Lines 142-143: nodeFieldCpy.substractInPlaceDM(nodeField_read, 10, 1e-12);
\* isUniform(0, 1e-12)
SM_SubstractNode ==
  /\ sm.pc = "nodeFieldCpy.substractInPlaceDM"
  /\ sm' = IF CanSubstractInPlaceDM(sm.nodeFieldCpy, sm.nodeField_read)
           THEN Only({[sm EXCEPT !.pc = "load_mesh_and_fields",
                                 !.nodeFieldCpy = cpy,
                                 !.nodeUniform = isUniform(cpy.array, 0)] :
                      cpy \in {substractInPlaceDM(sm.nodeFieldCpy, sm.nodeField_read)}})
           ELSE [sm EXCEPT !.pc = "InterpKernelException@142"]
  /\ UNCHANGED <<mpVars, daVars, disk, io_log, lb, la, rm, ns, fd, cap>>

\* Lines 232-233: fileNames = ["proc0.med", "proc1.med"];
\* msML, fsML = load_mesh_and_fields(fileNames)
SM_LoadMeshAndFields ==
  /\ sm.pc = "load_mesh_and_fields"
  /\ sm' = IF FileExists(disk, "proc0.med") /\ FileExists(disk, "proc1.med")
           THEN [sm EXCEPT !.pc = "merge_meshes",
                           !.msML = LoadMeshes(disk, <<"proc0.med", "proc1.med">>),
                           !.fsML = LoadFields(disk, <<"proc0.med", "proc1.med">>)]
           ELSE [sm EXCEPT !.pc = "InterpKernelException@157"]
  /\ UNCHANGED <<mpVars, daVars, disk, io_log, lb, la, rm, ns, fd, cap>>

\* Line 234: mergeMLMesh, o2nML = merge_meshes(msML)
SM_MergeMeshes ==
  /\ sm.pc = "merge_meshes"
  /\ sm' = Only({[sm EXCEPT !.pc = "merge_fields",
                            !.mergeMLMesh = r.mergeMLMesh, !.o2nML = r.o2nML] :
                 r \in {merge_meshes(sm.msML)}})
  /\ UNCHANGED <<mpVars, daVars, disk, io_log, lb, la, rm, ns, fd, cap>>

\* Line 235: mergeMLFields = merge_fields(fsML, mergeMLMesh, o2nML)
SM_MergeFields ==
  /\ sm.pc = "merge_fields"
  /\ sm' = IF CanMergeFields(sm.fsML, sm.mergeMLMesh, sm.o2nML)
           THEN [sm EXCEPT !.pc = "mergeMLMesh.write",
                           !.mergeMLFields = merge_fields(sm.fsML, sm.mergeMLMesh, sm.o2nML)]
           ELSE [sm EXCEPT !.pc = "InterpKernelException@196"]
  /\ UNCHANGED <<mpVars, daVars, disk, io_log, lb, la, rm, ns, fd, cap>>

\* Line 227: mergeMLMesh.write("merge.med", 2)
SM_WriteMergedMesh ==
  /\ sm.pc = "mergeMLMesh.write"
  /\ disk' = WriteMEDFileUMesh(disk, "merge.med", sm.mergeMLMesh)
  /\ io_log' = Append(io_log, LogEntry(2, "merge.med", sm.mergeMLMesh.name, disk))
  /\ sm' = [sm EXCEPT !.pc = "mergeMLFields.write"]
  /\ UNCHANGED <<mpVars, daVars, lb, la, rm, ns, fd, cap>>

\* Line 228: mergeMLFields.write("merge.med", 0)
SM_WriteMergedFields ==
  /\ sm.pc = "mergeMLFields.write"
  /\ io_log' = Append(io_log, LogEntry(0, "merge.med", sm.mergeMLMesh.name, disk))
  /\ IF \A k \in 1..Len(sm.mergeMLFields) :
          CanAppend(disk, "merge.med", sm.mergeMLFields[k].mesh)
     THEN /\ disk' = AppendFields(disk, "merge.med", sm.mergeMLFields, Len(sm.mergeMLFields))
          /\ sm' = [sm EXCEPT !.pc = "end"]
     ELSE /\ disk' = disk
          /\ sm' = [sm EXCEPT !.pc = "InterpKernelException@228"]
  /\ UNCHANGED <<mpVars, daVars, lb, la, rm, ns, fd, cap>>

SMNext ==
  \/ SM_Partition
  \/ SM_SubFields
  \/ SM_WriteField0
  \/ SM_WriteFieldUsingAlreadyWrittenMesh0
  \/ SM_WriteField1
  \/ SM_WriteFieldUsingAlreadyWrittenMesh1
  \/ SM_ReadFieldCell
  \/ SM_SubstractCell
  \/ SM_ReadFieldNode
  \/ SM_MergeNodes
  \/ SM_SubstractNode
  \/ SM_LoadMeshAndFields
  \/ SM_MergeMeshes
  \/ SM_MergeFields
  \/ SM_WriteMergedMesh
  \/ SM_WriteMergedFields

(***************************************************************************)
(* Claims on SplitMergeAvancee.py and on the writes of the three scripts   *)
(* (checked under SpecIO).                                                 *)
(***************************************************************************)
\* The statements of SplitMergeAvancee.py in the order they run.
SMOrder == <<"getCellsInBoundingBox", "nodeField[proc]", "WriteField0",
             "WriteFieldUsingAlreadyWrittenMesh0", "WriteField1",
             "WriteFieldUsingAlreadyWrittenMesh1", "ReadFieldCell",
             "cellFieldCpy.substractInPlaceDM", "ReadFieldNode", "mergeNodes",
             "nodeFieldCpy.substractInPlaceDM", "load_mesh_and_fields", "merge_meshes",
             "merge_fields", "mergeMLMesh.write", "mergeMLFields.write", "end">>

\* The statement at position stage has been executed without raising.
SMAfter(stage) ==
  /\ \E k \in 1..Len(SMOrder) : SMOrder[k] = sm.pc
  /\ (CHOOSE k \in 1..Len(SMOrder) : SMOrder[k] = sm.pc) >
       (CHOOSE k \in 1..Len(SMOrder) : SMOrder[k] = stage)

\* An append of one of the three scripts raised.
AppendRaised ==
  \/ lb.pc \in {"InterpKernelException@132", "InterpKernelException@141"}
  \/ la.pc \in {"InterpKernelException@169", "InterpKernelException@209"}
  \/ sm.pc \in {"InterpKernelException@93", "InterpKernelException@97",
                "InterpKernelException@228"}

\* C13: every write in mode 0 (WriteFieldUsingAlreadyWrittenMesh, or write
\* with mode 0) of the three scripts comes after a write from scratch to
\* the same file; the last write from scratch to that file before it stored
\* the mesh the appended field refers to, so that the file holds that mesh
\* when the append begins, and no append raises.
C13_AppendAfterMeshWrite ==
  /\ ~AppendRaised
  /\ \A k \in 1..Len(io_log) :
       io_log[k].mode = 0 =>
         /\ io_log[k].meshPresent
         /\ \E j \in 1..(k - 1) :
              /\ io_log[j].mode = 2
              /\ io_log[j].file = io_log[k].file
              /\ io_log[j].mesh = io_log[k].mesh
              /\ \A q \in (j + 1)..(k - 1) :
                   ~(io_log[q].mode = 2 /\ io_log[q].file = io_log[k].file)

\* C13 witness: the split/merge script has made its three appends, each
\* directly after the write from scratch of its file.
C13_Witness ==
  /\ sm.pc = "end"
  /\ [k \in 1..Len(io_log) |-> io_log[k].mode] = <<2, 0, 2, 0, 2, 0>>
  /\ [k \in 1..Len(io_log) |-> io_log[k].file] =
       <<"proc0.med", "proc0.med", "proc1.med", "proc1.med", "merge.med", "merge.med">>

\* The files of the two partitions.
ProcFiles == <<"proc0.med", "proc1.med">>

\* The mesh of level 0 of the file of partition p.
ProcMesh(p) == LoadUMesh(disk[ProcFiles[p]].meshes[1], 0)

\* C16: proc0 and proc1 have no cell in common and together hold every cell
\* id 0..nbCells-1 of m0 once; once the two files are written, every cell
\* of m0 is in the mesh of exactly one of proc0.med and proc1.med.
C16_PartitionsDisjointAndCover ==
  /\ sm.pc \notin {"InterpKernelException@92", "InterpKernelException@96"}
  /\ SMAfter("getCellsInBoundingBox") =>
       /\ Range(sm.proc0) \cap Range(sm.proc1) = {}
       /\ Range(sm.proc0) \cup Range(sm.proc1) = 0..(Len(sm.m0.cells) - 1)
       /\ Len(sm.proc0) + Len(sm.proc1) = Len(sm.m0.cells)
       /\ sm.proc0 = getCellsInBoundingBox(sm.m0, sm.bx, sm.by)
  /\ SMAfter("WriteFieldUsingAlreadyWrittenMesh1") =>
       /\ \A c \in 1..Len(sm.m0.cells) :
            Cardinality({p \in 1..2 : CellCounterparts(sm.m0, c, ProcMesh(p)) # {}}) = 1
       /\ Len(ProcMesh(1).cells) + Len(ProcMesh(2).cells) = Len(sm.m0.cells)

\* C16 witness: both files are written and each partition holds triangles
\* and a quadrangle.
C16_Witness ==
  /\ sm.pc = "ReadFieldCell"
  /\ \A p \in 1..2 : {ProcMesh(p).cells[c].type : c \in 1..Len(ProcMesh(p).cells)} =
                       {"NORM_TRI3", "NORM_QUAD4"}

\* C17: the cell field read from proc0.med and proc1.med and merged in that
\* order holds the values of cellField on the cells of proc0 followed by
\* those of proc1, and substractInPlaceDM with policy 10 does not raise and
\* leaves a difference that is uniformly zero.
C17_CellFieldStrategyA ==
  /\ sm.pc \notin {"InterpKernelException@104", "InterpKernelException@116"}
  /\ SMAfter("ReadFieldCell") =>
       sm.cellField_read.array =
         [q \in 1..Len(sm.m0.cells) |-> sm.cellField.array[(sm.proc0 \o sm.proc1)[q] + 1]]
  /\ SMAfter("cellFieldCpy.substractInPlaceDM") =>
       /\ sm.cellUniform = TRUE
       /\ Len(sm.cellFieldCpy.array) = Len(sm.m0.cells)

\* C17 witness: the comparison was made where merging the pieces changed
\* the order of the cells.
C17_Witness ==
  /\ sm.pc = "ReadFieldNode"
  /\ sm.cellUniform = TRUE
  /\ sm.proc0 \o sm.proc1 # [q \in 1..Len(sm.m0.cells) |-> q - 1]
  /\ sm.cellField_read.array # sm.cellField.array

\* The points that are a node of a cell of proc0 and of a cell of proc1.
BoundaryPoints ==
  {pt \in Range(sm.m0.coords) :
     /\ \E q \in 1..Len(sm.proc0) : pt \in Range(CellPoints(sm.m0, sm.proc0[q] + 1))
     /\ \E q \in 1..Len(sm.proc1) : pt \in Range(CellPoints(sm.m0, sm.proc1[q] + 1))}

\* C18: the points that the two node fields read back have in common, and
\* that merging them therefore holds twice, are exactly the points on the
\* boundary shared by the partitions; mergeNodes raises on neither the
\* merged field nor the copy of nodeField, and leaves both with one node
\* at each point of the same set of points; substractInPlaceDM does not
\* raise and leaves a difference that is uniformly zero.
C18_NodeFieldStrategyA ==
  /\ sm.pc \notin {"InterpKernelException@122", "InterpKernelException@133",
                   "InterpKernelException@135", "InterpKernelException@142"}
  /\ SMAfter("ReadFieldNode") =>
       Range(sm.nodeField0_read.mesh.coords) \cap Range(sm.nodeField1_read.mesh.coords) =
         BoundaryPoints
  /\ sm.pc = "nodeFieldCpy.substractInPlaceDM" =>
       /\ Range(sm.nodeField_read.mesh.coords) = Range(sm.nodeFieldCpy.mesh.coords)
       /\ Len(sm.nodeField_read.mesh.coords) = Cardinality(Range(sm.nodeField_read.mesh.coords))
       /\ Len(sm.nodeFieldCpy.mesh.coords) = Cardinality(Range(sm.nodeFieldCpy.mesh.coords))
       /\ Len(sm.nodeField_read.array) = Len(sm.nodeFieldCpy.array)
  /\ SMAfter("nodeFieldCpy.substractInPlaceDM") =>
       /\ sm.nodeUniform = TRUE
       /\ Len(sm.nodeFieldCpy.array) = Cardinality(Range(sm.m0.coords))

\* C18 witness: the comparison of the node fields was made, the pieces
\* sharing boundary points and nodeField having coincident nodes.
C18_Witness ==
  /\ sm.pc = "load_mesh_and_fields"
  /\ sm.nodeUniform = TRUE
  /\ BoundaryPoints # {}
  /\ Len(sm.nodeField.array) > Len(sm.nodeFieldCpy.array)

\* The step of the given name among the merged steps.
MergedStep(fieldName) ==
  sm.mergeMLFields[CHOOSE k \in 1..Len(sm.mergeMLFields) : sm.mergeMLFields[k].name = fieldName]

\* The level 0 of the merged mesh.
MergedMesh == LoadUMesh(sm.mergeMLMesh, 0)

\* C19: in the merged on-cells field the value of every cell of the merged
\* mesh, which is ordered by geometric type, is the value the same cell has
\* in the file of its partition; the merged on-nodes field is the values of
\* the partitions one after the other, one value a node of the aggregated
\* coordinates, the value of that node.
C19_MergedFieldsStrategyB ==
  /\ sm.pc \notin {"InterpKernelException@157", "InterpKernelException@196"}
  /\ SMAfter("merge_fields") =>
       /\ IsSortedInMEDFileFrmt(MergedMesh.cells)
       /\ Len(MergedMesh.cells) = Len(ProcMesh(1).cells) + Len(ProcMesh(2).cells)
       /\ \A p \in 1..2 : \A r \in 1..Len(ProcMesh(p).cells) :
            \E q \in 1..Len(MergedMesh.cells) :
              /\ MergedMesh.cells[q].type = ProcMesh(p).cells[r].type
              /\ CellPoints(MergedMesh, q) = CellPoints(ProcMesh(p), r)
              /\ LoadCellValues(MergedStep("CellField").data)[q] =
                   LoadCellValues(GetField(disk, ProcFiles[p], "CellField", 5, 6).data)[r]
       /\ MergedStep("NodeField").data =
            GetField(disk, ProcFiles[1], "NodeField", 5, 6).data \o
            GetField(disk, ProcFiles[2], "NodeField", 5, 6).data
       /\ MergedMesh.coords = ProcMesh(1).coords \o ProcMesh(2).coords
       /\ \A k \in 1..Len(MergedMesh.coords) :
            MergedStep("NodeField").data[k] = Analytic(MergedMesh.coords[k])

\* C19 witness: the merge was written, and ordering the merged cells by
\* type moved cells (each partition holds triangles and quadrangles).
C19_Witness ==
  /\ sm.pc = "end"
  /\ sm.o2nML[0] # [k \in 1..Len(sm.o2nML[0]) |-> k - 1]
  /\ HasField(disk, "merge.med", "CellField", 5, 6)
  /\ HasField(disk, "merge.med", "NodeField", 5, 6)

(***************************************************************************)
(* Remapper.py.  The target mesh has rmT cells a side where the script has *)
(* 10, and the source mesh twice as many, half as wide.  Lengths are in    *)
(* units of a quarter of the step of the target mesh.  rm holds the        *)
(* script's position pc and its variables under their names.               *)
(***************************************************************************)
rmT == 4

\* Lines 38-40: the step 0.5 of the source mesh.
SrcStep == 2

\* Lines 28-29: the step 1 of the target mesh.
TrgStep == 2 * SrcStep

\* The area 1.0.
UnitArea == TrgStep * TrgStep

\* buildUnstructured() of the Cartesian mesh of n cells a side: the nodes,
\* x running first.
CMeshCoords(n, step) ==
  [k \in 1..((n + 1) * (n + 1)) |-> <<step * ((k - 1) % (n + 1)), step * ((k - 1) \div (n + 1))>>]

\* buildUnstructured() of the Cartesian mesh of n cells a side: the cells.
CMeshCells(n) ==
  [k \in 1..(n * n) |->
     [type |-> "NORM_QUAD4",
      conn |-> << ((k - 1) % n) + 1 + ((k - 1) \div n) * (n + 1),
                  ((k - 1) % n) + ((k - 1) \div n) * (n + 1),
                  ((k - 1) % n) + (((k - 1) \div n) + 1) * (n + 1),
                  ((k - 1) % n) + 1 + (((k - 1) \div n) + 1) * (n + 1) >>]]

\* Lines 28-32: trgMesh.
BuildTrgMesh ==
  [name |-> "", meshDim |-> 2, coords |-> CMeshCoords(rmT, TrgStep), cells |-> CMeshCells(rmT)]

\* Lines 38-43: srcMesh as a Cartesian mesh.
BuildSrcCMesh ==
  [name |-> "", meshDim |-> 2, coords |-> CMeshCoords(2 * rmT, SrcStep),
   cells |-> CMeshCells(2 * rmT)]

\* Lines 47-49: the first cells of srcMesh, as many as a row holds (20 in
\* the script), triangulated and merged with the other cells.
BuildSrcMesh ==
  MergeUMeshes(simplexize([BuildSrcCMesh EXCEPT !.cells = SubSeq(@, 1, 2 * rmT)]),
               [BuildSrcCMesh EXCEPT !.cells = SubSeq(@, 2 * rmT + 1, Len(@))])

\* The least and the greatest of the values of a sequence.
SeqMin(s) == CHOOSE x \in Range(s) : \A y \in Range(s) : x <= y

SeqMax(s) == CHOOSE x \in Range(s) : \A y \in Range(s) : x >= y

\* The length two intervals have in common.
CommonLength(lo1, hi1, lo2, hi2) ==
  IF Min(hi1, hi2) > Max(lo1, lo2) THEN Min(hi1, hi2) - Max(lo1, lo2) ELSE 0

\* Twice the signed area of the polygon of the points pts.
TwiceSignedArea(pts) ==
  SumSeq([k \in 1..Len(pts) |->
            pts[k][1] * pts[(k % Len(pts)) + 1][2] - pts[(k % Len(pts)) + 1][1] * pts[k][2]],
         Len(pts))

\* The area of a cell.
CellArea(pts) ==
  (IF TwiceSignedArea(pts) < 0 THEN -TwiceSignedArea(pts) ELSE TwiceSignedArea(pts)) \div 2

\* The area of the bounding boxes of two cells have in common.
BoxOverlap(ps, pt) ==
  CommonLength(SeqMin([k \in 1..Len(ps) |-> ps[k][1]]), SeqMax([k \in 1..Len(ps) |-> ps[k][1]]),
          SeqMin([k \in 1..Len(pt) |-> pt[k][1]]), SeqMax([k \in 1..Len(pt) |-> pt[k][1]]))
  * CommonLength(SeqMin([k \in 1..Len(ps) |-> ps[k][2]]), SeqMax([k \in 1..Len(ps) |-> ps[k][2]]),
            SeqMin([k \in 1..Len(pt) |-> pt[k][2]]), SeqMax([k \in 1..Len(pt) |-> pt[k][2]]))

\* The area a source cell and a target cell have in common.  On the grids
\* of the script a source cell lies inside a target cell or has no area in
\* common with it.
IntersectionArea(ps, pt) == IF BoxOverlap(ps, pt) = 0 THEN 0 ELSE CellArea(ps)

\* remap.prepare(srcMesh, trgMesh, "P0P0") and remap.getCrudeMatrix(): for
\* every target cell the source cells (0-based, increasing) it has an area
\* in common with, and that area.
getCrudeMatrix(src, trg) ==
  [t \in 1..Len(trg.cells) |->
     Only({[k \in 1..Len(ids) |->
              [id |-> ids[k] - 1,
               area |-> IntersectionArea(CellPoints(src, ids[k]), CellPoints(trg, t))]] :
           ids \in {SelectSeq([s \in 1..Len(src.cells) |-> s],
                      LAMBDA s : IntersectionArea(CellPoints(src, s), CellPoints(trg, t)) > 0)}})]

RMIdle == rm = [pc |-> "off"]

\* Lines 28-49: trgMesh and srcMesh.
RMInit ==
  rm = [pc |-> "prepare", srcMesh |-> BuildSrcMesh, trgMesh |-> BuildTrgMesh,
        myMatrix |-> None, sumByRows |-> <<>>, i |-> 0, it |-> 0, su |-> 0,
        isUniform |-> None, srcField |-> None, line88 |-> "commented", transferred |-> <<>>,
        trgFieldCV |-> None, trgFieldI |-> None, cv |-> None, ex |-> None]

\* Lines 57-66: remap.prepare; myMatrix = remap.getCrudeMatrix();
\* sumByRows = mc.DataArrayDouble(len(myMatrix)), of which the model holds
\* the tuples the loop has set, the others being uninitialised and not read
\* before line 72.
RM_Prepare ==
  /\ rm.pc = "prepare"
  /\ rm' = Only({[rm EXCEPT !.pc = "for i", !.myMatrix = mat,
                            !.sumByRows = <<>>, !.i = 0] :
                 mat \in {getCrudeMatrix(rm.srcMesh, rm.trgMesh)}})
  /\ UNCHANGED <<mpVars, daVars, fileVars, ns, fd, cap>>

\* Lines 67-68: the next row i, su = 0.0; or the loop is over.
RM_ForRow ==
  /\ rm.pc = "for i"
  /\ rm' = IF rm.i < Len(rm.myMatrix)
           THEN [rm EXCEPT !.pc = "for it", !.su = 0, !.it = 0]
           ELSE [rm EXCEPT !.pc = "isUniform"]
  /\ UNCHANGED <<mpVars, daVars, fileVars, ns, fd, cap>>

\* Lines 69-70: su += myMatrix[i][it] for the next key it of the row.
RM_Add ==
  /\ rm.pc = "for it"
  /\ rm.it < Len(rm.myMatrix[rm.i + 1])
  /\ rm' = [rm EXCEPT !.su = @ + rm.myMatrix[rm.i + 1][rm.it + 1].area, !.it = @ + 1]
  /\ UNCHANGED <<mpVars, daVars, fileVars, ns, fd, cap>>

\* Line 71: wIt[0] = su
RM_SetSum ==
  /\ rm.pc = "for it"
  /\ rm.it = Len(rm.myMatrix[rm.i + 1])
  /\ rm' = [rm EXCEPT !.pc = "for i", !.sumByRows = Append(@, rm.su), !.i = @ + 1]
  /\ UNCHANGED <<mpVars, daVars, fileVars, ns, fd, cap>>

\* Line 72: sumByRows.isUniform(1.0, 1e-12)
RM_IsUniform ==
  /\ rm.pc = "isUniform"
  /\ rm' = [rm EXCEPT !.pc = "srcField", !.isUniform = isUniform(rm.sumByRows, UnitArea)]
  /\ UNCHANGED <<mpVars, daVars, fileVars, ns, fd, cap>>

(***************************************************************************)
(* Remapper.py, lines 76-128: the source field and its transfers.  The     *)
(* values of srcField are floored to multiples of a third of the unit of   *)
(* length; the values a transfer computes are kept as exact fractions.     *)
(***************************************************************************)
RECURSIVE Gcd(_, _)
Gcd(a, b) == IF b = 0 THEN a ELSE Only({Gcd(b, r) : r \in {a % b}})

\* The fraction n / d (d > 0) in lowest terms.
Rat(n, d) ==
  Only({Only({[num |-> x \div g, den |-> y \div g] : g \in {Gcd(Abs(x), y)}}) :
        x \in {n}, y \in {d}})

RatAdd(a, b) ==
  Only({Rat(x.num * y.den + y.num * x.den, x.den * y.den) : x \in {a}, y \in {b}})

RECURSIVE RatSumRange(_, _, _)
\* s[lo] + ... + s[hi], by halves.
RatSumRange(s, lo, hi) ==
  IF lo > hi THEN Rat(0, 1)
  ELSE IF lo = hi THEN s[lo]
  ELSE RatAdd(RatSumRange(s, lo, (lo + hi) \div 2), RatSumRange(s, ((lo + hi) \div 2) + 1, hi))

\* s[1] + ... + s[k]
RatSum(s, k) == Only({RatSumRange(v, 1, k) : v \in {s}})

\* The integer part of the square root.
ISqrt(x) == CHOOSE r \in 0..x : r * r <= x /\ (r + 1) * (r + 1) > x

\* Thirds of the unit of length: the centre of mass of a triangle of the
\* source mesh has its coordinates in thirds.
Thirds == 3

\* Thrice the centre of mass of a cell.
ThriceCenter(pts) ==
  << (Thirds * SumSeq([k \in 1..Len(pts) |-> pts[k][1]], Len(pts))) \div Len(pts),
     (Thirds * SumSeq([k \in 1..Len(pts) |-> pts[k][2]], Len(pts))) \div Len(pts) >>

\* Line 78: 7 - sqrt((x-5)*(x-5) + (y-5)*(y-5)) at a point given in thirds,
\* in thirds, (5, 5) being the centre of the meshes and 7 seven target steps.
SrcAnalytic(p) ==
  7 * Thirds * TrgStep
  - ISqrt((p[1] - Thirds * SrcStep * rmT) * (p[1] - Thirds * SrcStep * rmT)
          + (p[2] - Thirds * SrcStep * rmT) * (p[2] - Thirds * SrcStep * rmT))

\* Lines 76-79: srcField, its nature not declared.
BuildSrcField(src) ==
  [nature |-> "NoNature", mesh |-> src,
   array |-> [s \in 1..Len(src.cells) |-> Rat(SrcAnalytic(ThriceCenter(CellPoints(src, s))), 1)]]

\* A plausible slip: a field without nature is transferred as an intensive
\* one.
CanTransferField_Always(f) == TRUE

\* remap.transferField(f, dftValue) raises on a field whose nature is not
\* declared (note of line 95).
CanTransferField(f) == f.nature # "NoNature"

\* The sum of the areas of row t of the matrix.
RowSum(mat, t) == SumSeq([k \in 1..Len(mat[t]) |-> mat[t][k].area], Len(mat[t]))

\* The sum of the areas of the column of source cell s (0-based).
ColSum(mat, s) ==
  SumSeq([t \in 1..Len(mat) |->
            SumSeq([k \in 1..Len(mat[t]) |-> IF mat[t][k].id = s THEN mat[t][k].area ELSE 0],
                   Len(mat[t]))],
         Len(mat))

\* A plausible slip: the weighted sum is not divided by the sum of the row.
IntensiveTransfer_NoDenominator(mat, arr) ==
  [t \in 1..Len(mat) |->
     RatSum([k \in 1..Len(mat[t]) |->
               Rat(mat[t][k].area * arr[mat[t][k].id + 1].num, arr[mat[t][k].id + 1].den)],
            Len(mat[t]))]

\* IntensiveMaximum: the value of a target cell is the mean of the values of
\* the source cells it meets, weighted by the areas in common.
IntensiveTransfer(mat, arr) ==
  [t \in 1..Len(mat) |->
     Only({RatSum([k \in 1..Len(mat[t]) |->
                     Rat(mat[t][k].area * arr[mat[t][k].id + 1].num,
                         arr[mat[t][k].id + 1].den * rs)],
                  Len(mat[t])) :
           rs \in {RowSum(mat, t)}})]

\* A plausible slip: the extensive transfer divides by the sum of the row.
ExtensiveTransfer_ByRow(mat, arr) == IntensiveTransfer(mat, arr)

\* ExtensiveConservation: every source cell gives each target cell the part
\* of its value that the area in common is of the area of the source cell
\* covered by the target mesh.
ExtensiveTransfer(mat, arr) ==
  Only({[t \in 1..Len(mat) |->
           RatSum([k \in 1..Len(mat[t]) |->
                     Rat(mat[t][k].area * arr[mat[t][k].id + 1].num,
                         arr[mat[t][k].id + 1].den * cs[mat[t][k].id + 1])],
                  Len(mat[t]))] :
        cs \in {[s \in 1..Len(arr) |-> ColSum(mat, s - 1)]}})

\* remap.transferField(f, 1e300): the field on trgMesh; every target cell
\* meets a source cell, so the default value is not used.
transferField(mat, trg, f) ==
  [nature |-> f.nature, mesh |-> trg,
   array |-> IF f.nature = "ExtensiveConservation"
             THEN ExtensiveTransfer(mat, f.array)
             ELSE IntensiveTransfer(mat, f.array)]

\* f.integral(True)[0]: the values weighted by the areas of their cells.
integral(f) ==
  RatSum([c \in 1..Len(f.array) |->
            Rat(f.array[c].num * CellArea(CellPoints(f.mesh, c)), f.array[c].den)],
         Len(f.array))

\* f.getArray().accumulate()[0]: the sum of the values.
accumulate(f) == RatSum(f.array, Len(f.array))

\* Lines 76-79: srcField.
RM_NewSrcField ==
  /\ rm.pc = "srcField"
  /\ rm' = [rm EXCEPT !.pc = "line 88", !.srcField = BuildSrcField(rm.srcMesh)]
  /\ UNCHANGED <<mpVars, daVars, fileVars, ns, fd, cap>>

\* Line 88, as the script has it: the transfer is commented out.
RM_Line88Commented ==
  /\ rm.pc = "line 88"
  /\ rm' = [rm EXCEPT !.pc = "setNature(IntensiveMaximum)"]
  /\ UNCHANGED <<mpVars, daVars, fileVars, ns, fd, cap>>

\* Line 88 run by the reader: remap.transferField(srcField, 1e300) on the
\* field without nature (note of line 95).
RM_Line88Run ==
  /\ rm.pc = "line 88"
  /\ rm' = IF CanTransferField(rm.srcField)
           THEN [rm EXCEPT !.pc = "setNature(IntensiveMaximum)", !.line88 = "returned",
                           !.transferred = Append(@, rm.srcField.nature)]
           ELSE [rm EXCEPT !.pc = "InterpKernelException@88", !.line88 = "raised"]
  /\ UNCHANGED <<mpVars, daVars, fileVars, ns, fd, cap>>

\* Lines 99-100: srcField.setNature(mc.IntensiveMaximum);
\* trgFieldCV = remap.transferField(srcField, 1e300)
RM_TransferIntensive ==
  /\ rm.pc = "setNature(IntensiveMaximum)"
  /\ rm' = Only({IF CanTransferField(f)
                 THEN [rm EXCEPT !.pc = "integrals", !.srcField = f,
                                 !.trgFieldCV = transferField(rm.myMatrix, rm.trgMesh, f),
                                 !.transferred = Append(@, f.nature)]
                 ELSE [rm EXCEPT !.pc = "InterpKernelException@100", !.srcField = f] :
                 f \in {[rm.srcField EXCEPT !.nature = "IntensiveMaximum"]}})
  /\ UNCHANGED <<mpVars, daVars, fileVars, ns, fd, cap>>

\* Lines 105-110: integSource, integTarget, accSource, accTarget.
RM_IntegralsIntensive ==
  /\ rm.pc = "integrals"
  /\ rm' = [rm EXCEPT !.pc = "setNature(ExtensiveConservation)",
                      !.cv = [integSource |-> integral(rm.srcField),
                              integTarget |-> integral(rm.trgFieldCV),
                              accSource |-> accumulate(rm.srcField),
                              accTarget |-> accumulate(rm.trgFieldCV)]]
  /\ UNCHANGED <<mpVars, daVars, fileVars, ns, fd, cap>>

\* Lines 116-117: srcField.setNature(mc.ExtensiveConservation);
\* trgFieldI = remap.transferField(srcField, 1e300), with the matrix
\* prepared at line 58.
RM_TransferExtensive ==
  /\ rm.pc = "setNature(ExtensiveConservation)"
  /\ rm' = Only({IF CanTransferField(f)
                 THEN [rm EXCEPT !.pc = "integrals2", !.srcField = f,
                                 !.trgFieldI = transferField(rm.myMatrix, rm.trgMesh, f),
                                 !.transferred = Append(@, f.nature)]
                 ELSE [rm EXCEPT !.pc = "InterpKernelException@117", !.srcField = f] :
                 f \in {[rm.srcField EXCEPT !.nature = "ExtensiveConservation"]}})
  /\ UNCHANGED <<mpVars, daVars, fileVars, ns, fd, cap>>

\* Lines 122-127: integSource, integTarget, accSource, accTarget.
RM_IntegralsExtensive ==
  /\ rm.pc = "integrals2"
  /\ rm' = [rm EXCEPT !.pc = "end",
                      !.ex = [integSource |-> integral(rm.srcField),
                              integTarget |-> integral(rm.trgFieldI),
                              accSource |-> accumulate(rm.srcField),
                              accTarget |-> accumulate(rm.trgFieldI)]]
  /\ UNCHANGED <<mpVars, daVars, fileVars, ns, fd, cap>>

RMNext ==
  \/ RM_Prepare
  \/ RM_ForRow
  \/ RM_Add
  \/ RM_SetSum
  \/ RM_IsUniform
  \/ RM_NewSrcField
  \/ RM_Line88Commented
  \/ RM_Line88Run
  \/ RM_TransferIntensive
  \/ RM_IntegralsIntensive
  \/ RM_TransferExtensive
  \/ RM_IntegralsExtensive

(***************************************************************************)
(* Claims on Remapper.py (checked under SpecRM).                           *)
(***************************************************************************)
\* C20: in the matrix prepared from the source mesh, its first row of cells
\* triangulated, to the target mesh, the areas of every row (target cell)
\* add up to 1: every sum the loop has stored is 1 and line 72 finds
\* sumByRows uniform.
C20_RowSumsAreOne ==
  /\ \A t \in 1..Len(rm.sumByRows) : rm.sumByRows[t] = UnitArea
  /\ rm.myMatrix # None =>
       /\ \A t \in 1..Len(rm.myMatrix) :
            /\ SumSeq([k \in 1..Len(rm.myMatrix[t]) |-> rm.myMatrix[t][k].area],
                      Len(rm.myMatrix[t])) = UnitArea
       /\ Len(rm.myMatrix) = rmT * rmT
  /\ rm.pc \notin {"prepare", "for i", "for it", "isUniform"} =>
       rm.isUniform = TRUE /\ Len(rm.sumByRows) = rmT * rmT

\* C20 witness: every row was summed; the first target cell meets four
\* triangles and two quadrangles, the last one four quadrangles.
C20_Witness ==
  /\ rm.pc = "srcField"
  /\ rm.isUniform = TRUE
  /\ Len(rm.sumByRows) = Len(rm.myMatrix)
  /\ Len(rm.myMatrix[1]) = 6
  /\ Len(rm.myMatrix[rmT * rmT]) = 4

C22_IntensiveKeepsIntegral ==
  rm.cv # None =>
    /\ rm.cv.integTarget = rm.cv.integSource
    /\ rm.cv.accTarget # rm.cv.accSource

\* C22 witness: the integrals and sums of lines 105-110 are computed on the
\* field transferred with nature IntensiveMaximum.
C22_Witness ==
  /\ rm.pc = "setNature(ExtensiveConservation)"
  /\ rm.cv # None
  /\ rm.trgFieldCV.nature = "IntensiveMaximum"
  /\ Len(rm.trgFieldCV.array) = rmT * rmT
  /\ rm.cv.integSource.num > 0

\* C23: after the transfer with nature ExtensiveConservation, made with the
\* matrix prepared once at line 58, the sum of the values of the target
\* field equals that of the source field, and the integral of the target
\* field differs from that of the source field.
C23_ExtensiveKeepsSum ==
  rm.ex # None =>
    /\ rm.ex.accTarget = rm.ex.accSource
    /\ rm.ex.integTarget # rm.ex.integSource
    /\ rm.myMatrix = getCrudeMatrix(rm.srcMesh, rm.trgMesh)

\* C23 witness: the integrals and sums of lines 122-127 are computed on the
\* field transferred with nature ExtensiveConservation.
C23_Witness ==
  /\ rm.pc = "end"
  /\ rm.ex # None
  /\ rm.trgFieldI.nature = "ExtensiveConservation"
  /\ rm.ex.accSource.num > 0
  /\ rm.transferred = <<"IntensiveMaximum", "ExtensiveConservation">>

(***************************************************************************)
(* The optional bindings of the library.                                   *)
(***************************************************************************)
\* No capability query made, no binding used.
CapInit == cap = [queried |-> {}, used |-> {}]

\* mc.MEDCouplingHasNumPyBindings() / mc.MEDCouplingHasSciPyBindings()
Query(c, binding) == [c EXCEPT !.queried = @ \cup {binding}]

\* A call that needs the binding: toNumPyArray, DataArrayDouble(nparr),
\* getCrudeCSRMatrix.
Use(c, binding) == [c EXCEPT !.used = @ \cup {binding}]

(***************************************************************************)
(* NumpyScipy.py                                                           *)
(*                                                                         *)
(* Floating-point values are counted in hundredths: 4.0 is 400, 3.14 is    *)
(* 314.  A Python object is named by the variable and the line that made   *)
(* it.  An object that no name reaches is reclaimed at some later moment,  *)
(* at the latest by gc.collect().                                          *)
(***************************************************************************)
\* Line 41: the number of tuples of arr.
nsTuples == 12

NSNames == {"arr", "nparr", "arr2", "a", "b", "arr1", "c1", "c2"}

NSBuffers == {"buf@41", "buf@114", "buf@118"}

\* A plausible slip: toNumPyArray and DataArrayDouble(nparr) copy the data.
BufferOf_Copy(o) ==
  CASE o = "arr@41"   -> "buf@41"
    [] o = "arr1@114" -> "buf@114"
    [] o = "arr2@118" -> "buf@118"
    [] OTHER          -> ""

\* The memory block an object reads and writes: arr.toNumPyArray() (line 46)
\* and mc.DataArrayDouble(nparr) (line 71) make a second object on the block
\* of the first.
BufferOf(o) ==
  CASE o \in {"arr@41", "nparr@46", "arr2@71"} -> "buf@41"
    [] o = "arr1@114" -> "buf@114"
    [] o = "arr2@118" -> "buf@118"
    [] OTHER          -> ""

\* The object that allocated the block.
Owner(b) ==
  CASE b = "buf@41"  -> "arr@41"
    [] b = "buf@114" -> "arr1@114"
    [] b = "buf@118" -> "arr2@118"

\* The objects an object keeps alive: a Cartesian mesh keeps its coordinate
\* arrays (lines 116 and 121).
Holds(o) ==
  CASE o = "c1@113" -> {"arr1@114"}
    [] o = "c2@117" -> {"arr2@118"}
    [] OTHER        -> {}

\* The objects a name reaches.
Reachable(names) ==
  LET bound == {names[n] : n \in NSNames} \ {""}
  IN bound \cup UNION {Holds(o) : o \in bound}

\* A plausible slip: the block belongs to the object that allocated it and
\* goes with it.
ShouldFree_OwnerGone(b, live) == Owner(b) \notin live

\* The block is shared: it is released with the last object on it.
ShouldFree(b, live) == \A o \in live : BufferOf(o) # b

Fill(n, v) == [k \in 1..n |-> v]

\* The blocks after the objects of live are the only ones left: a released
\* block is returned to the allocator, its content is then anything; scrub
\* says whether it was overwritten.
Release(buffers, live, scrub) ==
  [b \in NSBuffers |->
     IF buffers[b].state = "allocated" /\ ShouldFree(b, live)
     THEN [state |-> "freed",
           data |-> IF scrub THEN Fill(Len(buffers[b].data), 0) ELSE buffers[b].data]
     ELSE buffers[b]]

\* name = <new object>: the name is bound to the object o.
Bind(s, name, o) ==
  [s EXCEPT !.names[name] = o, !.live = @ \cup {o}]

\* A new block for the object bound to the name.
Allocate(s, name, data) ==
  [s EXCEPT !.buffers[BufferOf(s.names[name])] = [state |-> "allocated", data |-> data]]

\* name[...] = values
WriteThrough(s, name, data) ==
  [s EXCEPT !.buffers[BufferOf(s.names[name])].data = data]

\* What a read through the name returns.
ReadThrough(s, name) == s.buffers[BufferOf(s.names[name])].data

IsFreed(s, name) == s.buffers[BufferOf(s.names[name])].state = "freed"

\* print(x.__repr__())
PrintRepr(s, line, name) ==
  [s EXCEPT !.printed = Append(@, [line |-> line, name |-> name,
                                   values |-> ReadThrough(s, name)])]

\* nparr[::2] = v: the Python indices 0, 2, 4, ... are the positions 1, 3, 5, ...
EveryOther(data, v) == [k \in 1..Len(data) |-> IF k % 2 = 1 THEN v ELSE data[k]]

NSIdle == ns = [pc |-> "off"]

\* The positions at which the script is not running.
NSStopped == {"off", "end", "AssertionError@35", "AssertionError@109", "SIGSEGV@64"}

\* Lines 28-31: the imports are done; the library was built with or without
\* each of the bindings.
NSInit ==
  \E np \in BOOLEAN, sp \in BOOLEAN :
    ns = [pc |-> "assert NumPy", hasNumPy |-> np, hasSciPy |-> sp,
          names |-> [n \in NSNames |-> ""], live |-> {},
          buffers |-> [b \in NSBuffers |-> [state |-> "unallocated", data |-> <<>>]],
          printed |-> <<>>, toto |-> <<>>,
          c1 |-> None, c2 |-> None, c |-> None, skinAndNCFaces |-> None,
          mat |-> None, cellIdsOfSkin |-> <<>>, skin |-> None]

NSRest == UNCHANGED <<mpVars, daVars, fileVars, rm, fd>>

\* Line 35: assert mc.MEDCouplingHasNumPyBindings()
NS_AssertNumPy ==
  /\ ns.pc = "assert NumPy"
  /\ cap' = Query(cap, "NumPy")
  /\ ns' = [ns EXCEPT !.pc = IF ns.hasNumPy THEN "arr" ELSE "AssertionError@35"]
  /\ NSRest

\* Lines 41-42: arr = mc.DataArrayDouble(12); arr[:] = 4.0
NS_NewArr ==
  /\ ns.pc = "arr"
  /\ ns' = [Allocate(Bind(ns, "arr", "arr@41"), "arr", Fill(nsTuples, 400))
              EXCEPT !.pc = "toNumPyArray"]
  /\ UNCHANGED cap
  /\ NSRest

\* Lines 46-48: nparr = arr.toNumPyArray() and its two prints.
NS_ToNumPyArray ==
  /\ ns.pc = "toNumPyArray"
  /\ cap' = Use(cap, "NumPy")
  /\ ns' = [PrintRepr(Bind(ns, "nparr", "nparr@46"), 47, "nparr") EXCEPT !.pc = "nparr[::2]"]
  /\ NSRest

\* Lines 54-56: nparr[::2] = 7.0, then nparr and arr are printed.
NS_WriteEveryOther ==
  /\ ns.pc = "nparr[::2]"
  /\ ns' = [PrintRepr(PrintRepr(WriteThrough(ns, "nparr",
                                             EveryOther(ReadThrough(ns, "nparr"), 700)),
                                55, "nparr"), 56, "arr")
              EXCEPT !.pc = "del arr"]
  /\ UNCHANGED cap
  /\ NSRest

\* Line 61: del arr
NS_DelArr ==
  /\ ns.pc = "del arr"
  /\ ns' = [ns EXCEPT !.names["arr"] = "", !.pc = "gc.collect"]
  /\ UNCHANGED cap
  /\ NSRest

\* The interpreter reclaims an object that no name reaches, at a moment of
\* its own.
NS_Reclaim ==
  /\ ns.pc \notin NSStopped
  /\ \E o \in ns.live \ Reachable(ns.names), scrub \in BOOLEAN :
       ns' = [ns EXCEPT !.live = @ \ {o},
                        !.buffers = Release(ns.buffers, ns.live \ {o}, scrub)]
  /\ UNCHANGED cap
  /\ NSRest

\* Lines 63-64: gc.collect() reclaims every object no name reaches; then
\* nparr is printed.  Reading a released block is undefined: the process is
\* killed or prints what the block holds.
NS_GcCollect ==
  /\ ns.pc = "gc.collect"
  /\ \E scrub \in BOOLEAN, killed \in BOOLEAN :
       LET collected == [ns EXCEPT !.live = Reachable(ns.names) \cap @,
                                   !.buffers = Release(ns.buffers,
                                                       Reachable(ns.names) \cap ns.live, scrub)]
       IN ns' = IF IsFreed(collected, "nparr") /\ killed
                THEN [collected EXCEPT !.pc = "SIGSEGV@64"]
                ELSE [PrintRepr(collected, 64, "nparr") EXCEPT !.pc = "arr2"]
  /\ UNCHANGED cap
  /\ NSRest

\* Lines 71-72: arr2 = mc.DataArrayDouble(nparr); print(arr2.__repr__())
NS_NewArr2 ==
  /\ ns.pc = "arr2"
  /\ cap' = Use(cap, "NumPy")
  /\ ns' = [PrintRepr(Bind(ns, "arr2", "arr2@71"), 72, "arr2") EXCEPT !.pc = "nparr[:]"]
  /\ NSRest

\* Lines 76-78: nparr[:] = 5.0, then nparr and arr2 are printed.
NS_WriteAll ==
  /\ ns.pc = "nparr[:]"
  /\ ns' = [PrintRepr(PrintRepr(WriteThrough(ns, "nparr", Fill(nsTuples, 500)),
                                77, "nparr"), 78, "arr2")
              EXCEPT !.pc = "memmap a"]
  /\ UNCHANGED cap
  /\ NSRest

\* Lines 82-85: toto.data is created as a mapping of the shape of nparr and
\* receives the content of nparr.
NS_MemmapWrite ==
  /\ ns.pc = "memmap a"
  /\ ns' = [Bind(ns, "a", "a@83") EXCEPT !.toto = ReadThrough(ns, "nparr"),
                                         !.pc = "memmap b"]
  /\ UNCHANGED cap
  /\ NSRest

\* Lines 89-90: a second, read-only mapping of the file.
NS_MemmapRead ==
  /\ ns.pc = "memmap b"
  /\ ns' = [Bind(ns, "b", "b@90") EXCEPT !.pc = "a[:] = 3.14"]
  /\ UNCHANGED cap
  /\ NSRest

\* Lines 94-97: a[:] = 3.14, the flush, b is mapped again and printed; the
\* mapping of line 90 is no longer reached.
NS_MemmapRewrite ==
  /\ ns.pc = "a[:] = 3.14"
  /\ ns' = [Bind(ns, "b", "b@96") EXCEPT
              !.toto = Fill(Len(ns.toto), 314),
              !.printed = Append(@, [line |-> 97, name |-> "b",
                                     values |-> Fill(Len(ns.toto), 314)]),
              !.pc = "assert SciPy"]
  /\ UNCHANGED cap
  /\ NSRest

\* Line 109: assert mc.MEDCouplingHasSciPyBindings()
NS_AssertSciPy ==
  /\ ns.pc = "assert SciPy"
  /\ cap' = Query(cap, "SciPy")
  /\ ns' = [ns EXCEPT !.pc = IF ns.hasSciPy THEN "c1" ELSE "AssertionError@109"]
  /\ NSRest

\* The number of cells per axis of c1 (line 114: 7 nodes) and of c2 (line
\* 118: 9 nodes), reduced; both meshes span the same length, nsN1 * nsN2
\* units, so that a cell of c1 is nsN2 units wide and a cell of c2 nsN1.
nsN1 == 2

nsN2 == 3

\* arr.iota() and arr *= step: 0, step, 2*step, ...
Iota(n, step) == [k \in 1..n |-> step * (k - 1)]

\* mc.MEDCouplingCMesh() with setCoords(axis, axis, axis)
NewCMesh(axis) == [kind |-> "CMesh", axis |-> axis]

\* c.buildUnstructured() of a Cartesian mesh with the same array on the
\* three axes: node q = i + n1*j + n1*n1*k (n1 nodes per axis), cell
\* i + n*j + n*n*k (n = n1 - 1), a hexahedron of 8 nodes, the bottom
\* face first.
CMeshToUnstructured(cm) ==
  LET n1 == Len(cm.axis)
      n  == n1 - 1
      node(i, j, k) == i + n1 * j + n1 * n1 * k
  IN [name |-> "", meshDim |-> 3,
      coords |-> [q \in 1..(n1 * n1 * n1) |->
                    <<cm.axis[((q - 1) % n1) + 1], cm.axis[(((q - 1) \div n1) % n1) + 1],
                      cm.axis[((q - 1) \div (n1 * n1)) + 1]>>],
      cells |-> [c \in 1..(n * n * n) |->
                   LET i == (c - 1) % n
                       j == ((c - 1) \div n) % n
                       k == (c - 1) \div (n * n)
                   IN [type |-> "NORM_HEXA8",
                       conn |-> <<node(i, j, k), node(i + 1, j, k), node(i + 1, j + 1, k),
                                  node(i, j + 1, k), node(i, j, k + 1), node(i + 1, j, k + 1),
                                  node(i + 1, j + 1, k + 1), node(i, j + 1, k + 1)>>]]]

\* c2.translate(vec)
TranslateMesh(mesh0, vec) ==
  [mesh0 EXCEPT !.coords = [q \in 1..Len(mesh0.coords) |->
                              [x \in 1..Len(vec) |-> mesh0.coords[q][x] + vec[x]]]]

\* c.mergeNodes(1e-12): the nodes at one point become one node.
UMeshMergeNodes(mesh0) ==
  Only({Only({[mesh0 EXCEPT
                 !.coords = [n \in 1..Len(firsts) |-> mesh0.coords[firsts[n]]],
                 !.cells = [c \in 1..Len(mesh0.cells) |->
                              [type |-> mesh0.cells[c].type,
                               conn |-> [k \in 1..Len(mesh0.cells[c].conn) |->
                                           oldToNew[mesh0.cells[c].conn[k] + 1]]]]] :
              firsts \in {SelectSeq([k \in 1..Len(oldToNew) |-> k],
                                    LAMBDA k : FirstNodeAt(mesh0.coords, k) = k)}}) :
        oldToNew \in {MergeNodesO2N(mesh0.coords)}})

\* The six faces of a hexahedron, as positions in its connectivity.
HexaFaces ==
  <<<<1, 2, 3, 4>>, <<5, 6, 7, 8>>, <<1, 2, 6, 5>>, <<2, 3, 7, 6>>, <<3, 4, 8, 7>>,
    <<4, 1, 5, 8>>>>

\* c.computeSkin(): the faces that belong to one cell only; two cells share
\* a face when it has the same nodes in both.
computeSkin(mesh0) ==
  LET nf == Len(HexaFaces) * Len(mesh0.cells)
  IN Only({Only({[name |-> mesh0.name, meshDim |-> 2, coords |-> mesh0.coords,
                  cells |-> [k \in 1..Len(once) |->
                               [type |-> "NORM_QUAD4", conn |-> faces[once[k]]]]] :
                 once \in {SelectSeq([p \in 1..nf |-> p],
                             LAMBDA p : \A q \in 1..nf : Range(faces[q]) = Range(faces[p]) => q = p)}}) :
           faces \in {[p \in 1..nf |->
                         [k \in 1..4 |->
                            mesh0.cells[((p - 1) \div Len(HexaFaces)) + 1].conn[
                              HexaFaces[((p - 1) % Len(HexaFaces)) + 1][k]]]]}})

\* m.zipCoords(): the nodes no cell uses are removed.
zipCoords(mesh0) ==
  Only({Only({[mesh0 EXCEPT
                 !.coords = [n \in 1..Len(used) |-> mesh0.coords[used[n] + 1]],
                 !.cells = [c \in 1..Len(mesh0.cells) |->
                              [type |-> mesh0.cells[c].type,
                               conn |-> [k \in 1..Len(mesh0.cells[c].conn) |->
                                           newId[mesh0.cells[c].conn[k] + 1]]]]] :
              newId \in {[q \in 1..Len(mesh0.coords) |->
                            Cardinality({u \in Range(used) : u < q - 1})]}}) :
        used \in {UsedNodes(mesh0, [c \in 1..Len(mesh0.cells) |-> c - 1])}})

\* The bounding box of the cell c.
CellBox(mesh0, c) ==
  Only({[lo |-> [x \in 1..3 |-> SeqMin([k \in 1..Len(pts) |-> pts[k][x]])],
         hi |-> [x \in 1..3 |-> SeqMax([k \in 1..Len(pts) |-> pts[k][x]])]] :
        pts \in {CellPoints(mesh0, c)}})

\* A plausible slip: every pair of faces of the mesh is a match.
AxisCommon_Always(lo1, hi1, lo2, hi2) == 1

\* What two faces have in common along one axis.  Along its normal a face is
\* flat: two faces match there when they lie in one plane (line 150: at most
\* 1e-12 apart); a face flat along the axis and one that is not are
\* orthogonal (line 151 wants a dot product of 0.99 at least).
AxisCommon(lo1, hi1, lo2, hi2) ==
  IF lo1 = hi1 /\ lo2 = hi2 THEN (IF lo1 = lo2 THEN 1 ELSE 0)
  ELSE IF lo1 = hi1 \/ lo2 = hi2 THEN 0
  ELSE CommonLength(lo1, hi1, lo2, hi2)

\* The area two faces of boxes a and b have in common.
FaceOverlap(a, b) ==
  AxisCommon(a.lo[1], a.hi[1], b.lo[1], b.hi[1])
  * AxisCommon(a.lo[2], a.hi[2], b.lo[2], b.hi[2])
  * AxisCommon(a.lo[3], a.hi[3], b.lo[3], b.hi[3])

\* rem.prepare(skinAndNCFaces, skinAndNCFaces, "P0P0") and
\* rem.getCrudeCSRMatrix(): row and column per face, the stored entries are
\* the positive common areas.
SelfInterpolation(mesh0) ==
  Only({Only({Only({[shape   |-> <<Len(boxes), Len(boxes)>>,
                     indptr  |-> computeOffsetsFull([t \in 1..Len(boxes) |-> Len(rows[t])]),
                     indices |-> [p \in 1..Len(flat) |-> flat[p][1]],
                     data    |-> [p \in 1..Len(flat) |-> flat[p][2]]] :
                    flat \in {Flatten(rows, Len(boxes))}}) :
              rows \in {[t \in 1..Len(boxes) |->
                           SelectSeq([s \in 1..Len(boxes) |->
                                        <<s - 1, FaceOverlap(boxes[s], boxes[t])>>],
                                     LAMBDA e : e[2] > 0)]}}) :
        boxes \in {[c \in 1..Len(mesh0.cells) |-> CellBox(mesh0, c)]}})

\* A plausible slip: the rows with one entry or more.
findIdsEqual_OrMore(arr, v) ==
  SelectSeq([k \in 1..Len(arr) |-> k - 1], LAMBDA k : arr[k + 1] >= v)

\* DataArrayInt.findIdsEqual(v): the ids (0-based, increasing) of the tuples
\* equal to v.
findIdsEqual(arr, v) ==
  SelectSeq([k \in 1..Len(arr) |-> k - 1], LAMBDA k : arr[k + 1] = v)

\* Lines 113-116: arr1 and the Cartesian mesh c1.
NS_C1 ==
  /\ ns.pc = "c1"
  /\ ns' = [Bind(Allocate(Bind(ns, "arr1", "arr1@114"), "arr1", Iota(nsN1 + 1, nsN2)),
                 "c1", "c1@113")
              EXCEPT !.c1 = NewCMesh(Iota(nsN1 + 1, nsN2)), !.pc = "c2"]
  /\ UNCHANGED cap
  /\ NSRest

\* Lines 117-121: arr2 is bound to a new array, the array of line 71 is no
\* longer reached; the Cartesian mesh c2.
NS_C2 ==
  /\ ns.pc = "c2"
  /\ ns' = [Bind(Allocate(Bind(ns, "arr2", "arr2@118"), "arr2", Iota(nsN2 + 1, nsN1)),
                 "c2", "c2@117")
              EXCEPT !.c2 = NewCMesh(Iota(nsN2 + 1, nsN1)), !.pc = "buildUnstructured"]
  /\ UNCHANGED cap
  /\ NSRest

\* Lines 125-126: c1 and c2 are bound to the unstructured meshes; the
\* Cartesian meshes are no longer reached.
NS_BuildUnstructured ==
  /\ ns.pc = "buildUnstructured"
  /\ ns' = [Bind(Bind(ns, "c1", "c1@125"), "c2", "c2@126")
              EXCEPT !.c1 = CMeshToUnstructured(ns.c1), !.c2 = CMeshToUnstructured(ns.c2),
                     !.pc = "translate"]
  /\ UNCHANGED cap
  /\ NSRest

\* Line 127: c2.translate([6.0, 0.0, 0.0]), the length of c1.
NS_Translate ==
  /\ ns.pc = "translate"
  /\ ns' = [ns EXCEPT !.c2 = TranslateMesh(ns.c2, <<nsN1 * nsN2, 0, 0>>),
                      !.pc = "MergeUMeshes"]
  /\ UNCHANGED cap
  /\ NSRest

\* Line 128: c = mc.MEDCouplingUMesh.MergeUMeshes([c1, c2])
NS_MergeUMeshes ==
  /\ ns.pc = "MergeUMeshes"
  /\ ns' = [ns EXCEPT !.c = MergeUMeshes(ns.c1, ns.c2), !.pc = "mergeNodes"]
  /\ UNCHANGED cap
  /\ NSRest

\* Line 132: c.mergeNodes(1e-12)
NS_MergeNodes ==
  /\ ns.pc = "mergeNodes"
  /\ ns' = [ns EXCEPT !.c = UMeshMergeNodes(ns.c), !.pc = "computeSkin"]
  /\ UNCHANGED cap
  /\ NSRest

\* Line 136: skinAndNCFaces = c.computeSkin()
NS_ComputeSkin ==
  /\ ns.pc = "computeSkin"
  /\ ns' = [ns EXCEPT !.skinAndNCFaces = computeSkin(ns.c), !.pc = "zipCoords"]
  /\ UNCHANGED cap
  /\ NSRest

\* Line 140: skinAndNCFaces.zipCoords()
NS_ZipCoords ==
  /\ ns.pc = "zipCoords"
  /\ ns' = [ns EXCEPT !.skinAndNCFaces = zipCoords(ns.skinAndNCFaces), !.pc = "prepare"]
  /\ UNCHANGED cap
  /\ NSRest

\* Lines 149-157: the remapper is prepared on skinAndNCFaces twice and its
\* matrix is retrieved.
NS_GetCrudeCSRMatrix ==
  /\ ns.pc = "prepare"
  /\ cap' = Use(cap, "SciPy")
  /\ ns' = [ns EXCEPT !.mat = SelfInterpolation(ns.skinAndNCFaces), !.pc = "indptr"]
  /\ NSRest

\* Lines 164-166: the rows of mat with exactly one stored entry.
NS_CellIdsOfSkin ==
  /\ ns.pc = "indptr"
  /\ cap' = Use(cap, "NumPy")
  /\ ns' = [ns EXCEPT !.cellIdsOfSkin = findIdsEqual(deltaShiftIndex(ns.mat.indptr), 1),
                      !.pc = "skin"]
  /\ NSRest

\* Lines 170-171: skin = skinAndNCFaces[cellIdsOfSkin], written to skin.vtu.
NS_Skin ==
  /\ ns.pc = "skin"
  /\ ns' = [ns EXCEPT !.skin = MeshPart(ns.skinAndNCFaces, ns.cellIdsOfSkin), !.pc = "end"]
  /\ UNCHANGED cap
  /\ NSRest

NSNext ==
  \/ NS_AssertNumPy
  \/ NS_NewArr
  \/ NS_ToNumPyArray
  \/ NS_WriteEveryOther
  \/ NS_DelArr
  \/ NS_Reclaim
  \/ NS_GcCollect
  \/ NS_NewArr2
  \/ NS_WriteAll
  \/ NS_MemmapWrite
  \/ NS_MemmapRead
  \/ NS_MemmapRewrite
  \/ NS_AssertSciPy
  \/ NS_C1
  \/ NS_C2
  \/ NS_BuildUnstructured
  \/ NS_Translate
  \/ NS_MergeUMeshes
  \/ NS_MergeNodes
  \/ NS_ComputeSkin
  \/ NS_ZipCoords
  \/ NS_GetCrudeCSRMatrix
  \/ NS_CellIdsOfSkin
  \/ NS_Skin

FDIdle == fd = [pc |-> "off"]

\* C24: the array of the library and the numpy array made from it are two
\* objects on one memory block that lives as long as one of them: the block
\* of an object that still exists is never released, whichever of the
\* objects on it was made first and whichever was reclaimed; the process is
\* not killed at line 64; after del arr and gc.collect() nparr prints 7.0 at
\* the even indices and 4.0 at the odd ones, and after nparr[:] = 5.0 both
\* nparr and arr2 print 5.0 everywhere.
C24_SharedBufferOutlivesOriginator ==
  /\ ns.pc # "SIGSEGV@64"
  /\ \A o \in ns.live : BufferOf(o) # "" => ns.buffers[BufferOf(o)].state = "allocated"
  /\ \A p \in 1..Len(ns.printed) :
       /\ ns.printed[p].line = 64 =>
            ns.printed[p].values = [k \in 1..nsTuples |-> IF (k - 1) % 2 = 0 THEN 700 ELSE 400]
       /\ ns.printed[p].line \in {77, 78} => ns.printed[p].values = Fill(nsTuples, 500)

\* arr, made first, and arr2, made last, are both reclaimed; nparr is still
\* bound and line 64 has printed it.
C24_Witness ==
  /\ ns.pc \notin NSStopped
  /\ "arr@41" \notin ns.live /\ "arr2@71" \notin ns.live
  /\ ns.names["arr2"] = "arr2@118"
  /\ ns.names["nparr"] = "nparr@46" /\ "nparr@46" \in ns.live
  /\ ns.buffers["buf@41"].state = "allocated"
  /\ \E p \in 1..Len(ns.printed) : ns.printed[p].line = 64

\* C25: a binding is used only after its capability query was made, and
\* when a script first converts an array or retrieves a sparse matrix both
\* queries have been made.
C25_BindingsQueriedBeforeUse ==
  /\ cap.used \subseteq cap.queried
  /\ cap.used # {} => cap.queried = {"NumPy", "SciPy"}

\* The faces of the plane x = nsN1 * nsN2 where c1 and c2 meet are the seam;
\* a face of skinAndNCFaces is on the outside when it lies in a side of the
\* box the two meshes fill.
OnOutside(box) ==
  \/ box.lo[1] = box.hi[1] /\ box.lo[1] \in {0, 2 * nsN1 * nsN2}
  \/ box.lo[2] = box.hi[2] /\ box.lo[2] \in {0, nsN1 * nsN2}
  \/ box.lo[3] = box.hi[3] /\ box.lo[3] \in {0, nsN1 * nsN2}

\* The number of stored entries of the row of face k (1-based).
RowEntries(mat, k) == mat.indptr[k + 1] - mat.indptr[k]

\* C26: in the matrix of skinAndNCFaces against itself the row of a face has
\* one entry exactly when the face is on the outside and more than one
\* exactly when it is a face of the seam; skin holds the faces of the first
\* kind, all of them and in their order, and no face with more than one
\* entry.
C26_SkinIsRowsWithOneEntry ==
  ns.pc = "end" =>
    /\ \A k \in 1..Len(ns.skinAndNCFaces.cells) :
         /\ RowEntries(ns.mat, k) = 1 <=> OnOutside(CellBox(ns.skinAndNCFaces, k))
         /\ RowEntries(ns.mat, k) > 1 <=> ~OnOutside(CellBox(ns.skinAndNCFaces, k))
    /\ ns.skin.cells = SelectSeq(ns.skinAndNCFaces.cells,
                                 LAMBDA cell : \E k \in 1..Len(ns.skinAndNCFaces.cells) :
                                   /\ ns.skinAndNCFaces.cells[k] = cell
                                   /\ OnOutside(CellBox(ns.skinAndNCFaces, k)))
    /\ \A k \in 1..Len(ns.skinAndNCFaces.cells) :
         RowEntries(ns.mat, k) > 1 => ns.skinAndNCFaces.cells[k] \notin Range(ns.skin.cells)

\* The script has ended; skin has the five outer sides of each mesh, and
\* skinAndNCFaces has the faces of both meshes on the seam as well.
C26_Witness ==
  /\ ns.pc = "end"
  /\ \E k \in 1..Len(ns.skinAndNCFaces.cells) : RowEntries(ns.mat, k) > 1
  /\ Len(ns.skin.cells) = 5 * (nsN1 * nsN1 + nsN2 * nsN2)
  /\ Len(ns.skinAndNCFaces.cells) = Len(ns.skin.cells) + nsN1 * nsN1 + nsN2 * nsN2

(***************************************************************************)
(* Field.py.  Lengths are in tenths, values of the scalar field in         *)
(* hundredths (the square of a length), volumes in thousandths, integrals  *)
(* in units of 1e-5.                                                       *)
(***************************************************************************)
\* Line 71: the number of nodes per axis.
fdNodes == 11

\* mesh.convertToPolyTypes(ids): the cells of the ids become polyhedra.
convertToPolyTypes(mesh0, ids) ==
  [mesh0 EXCEPT !.cells = [c \in 1..Len(mesh0.cells) |->
                             IF (c - 1) \in Range(ids)
                             THEN [mesh0.cells[c] EXCEPT !.type = "NORM_POLYHED"]
                             ELSE mesh0.cells[c]]]

\* Lines 71-82: a cell is one unit, 10 tenths, wide; the cells of even id
\* are polyhedra.
BuildFieldMesh ==
  Only({convertToPolyTypes(u, [k \in 1..((Len(u.cells) + 1) \div 2) |-> 2 * (k - 1)]) :
        u \in {CMeshToUnstructured(NewCMesh(Iota(fdNodes, 10)))}})

\* The centroid of the cell c.
Centroid(mesh0, c) ==
  Only({[x \in 1..3 |-> SumSeq([k \in 1..Len(pts) |-> pts[k][x]], Len(pts)) \div Len(pts)] :
        pts \in {CellPoints(mesh0, c)}})

\* "(x-5.)*(x-5.)+(y-5.)*(y-5.)+(z-5.)*(z-5.)" at the point p
FieldAnalytic(p) ==
  (p[1] - 50) * (p[1] - 50) + (p[2] - 50) * (p[2] - 50) + (p[3] - 50) * (p[3] - 50)

\* mesh.fillFromAnalytic(mc.ON_CELLS, 1, ...)
FieldFromAnalytic(mesh0, name) ==
  [type |-> "ON_CELLS", name |-> name, mesh |-> mesh0,
   array |-> [c \in 1..Len(mesh0.cells) |-> FieldAnalytic(Centroid(mesh0, c))]]

\* "(x-5.)*IVec+(y-5.)*JVec+(z-5.)*KVec" on the cells
VectorFromAnalytic(mesh0) ==
  [type |-> "ON_CELLS", name |-> "", mesh |-> mesh0,
   array |-> [c \in 1..Len(mesh0.cells) |->
                Only({<<p[1] - 50, p[2] - 50, p[3] - 50>> : p \in {Centroid(mesh0, c)}})]]

\* f.isEqualWithoutConsideringStr(f2, 1e-12, 1e-13)
isEqualWithoutConsideringStr(a, b) ==
  /\ a.type = b.type
  /\ a.mesh.coords = b.mesh.coords /\ a.mesh.cells = b.mesh.cells
  /\ a.array = b.array

\* DataArrayDouble.findIdsInRange(lo, hi): the ids (0-based, increasing) of
\* the tuples in [lo, hi].
findIdsInRange(arr, lo, hi) ==
  SelectSeq([k \in 1..Len(arr) |-> k - 1], LAMBDA k : arr[k + 1] >= lo /\ arr[k + 1] <= hi)

\* f.getValueOnMulti(pts): for every point the value of the cell that holds
\* it.
getValueOnMulti(f, pts) ==
  Only({[q \in 1..Len(pts) |->
           f.array[CHOOSE c \in 1..Len(boxes) :
                     \A x \in 1..3 : boxes[c].lo[x] <= pts[q][x] /\ pts[q][x] <= boxes[c].hi[x]]] :
        boxes \in {[c \in 1..Len(f.mesh.cells) |-> CellBox(f.mesh, c)]}})

\* A plausible slip: every cell is taken to have the unit volume.
CellMeasure_Unit(mesh0, c) == 1000

\* The volume of the cell c, a box with its edges along the axes.
CellMeasure(mesh0, c) ==
  Only({(b.hi[1] - b.lo[1]) * (b.hi[2] - b.lo[2]) * (b.hi[3] - b.lo[3]) :
        b \in {CellBox(mesh0, c)}})

\* f.integral(0, True): the sum over the cells of value times volume.
FieldIntegral(f) ==
  Only({SumSeq(terms, Len(terms)) :
        terms \in {[c \in 1..Len(f.array) |-> f.array[c] * CellMeasure(f.mesh, c)]}})

\* DataArrayDouble.accumulate()[0]: the sum of the values.
ArraySum(arr) == Only({SumSeq(v, Len(v)) : v \in {arr}})

\* mesh.scale(point, factor), the factor being num/den.
scale(mesh0, point, num, den) ==
  [mesh0 EXCEPT !.coords = [q \in 1..Len(mesh0.coords) |->
                              [x \in 1..3 |->
                                 point[x] + ((mesh0.coords[q][x] - point[x]) * num) \div den]]]

RECURSIVE MergeAllUMeshes(_, _)
\* mc.MEDCouplingUMesh.MergeUMeshes(cells) on the first k meshes of a list.
MergeAllUMeshes(meshes, k) ==
  IF k = 1 THEN meshes[1] ELSE MergeUMeshes(MergeAllUMeshes(meshes, k - 1), meshes[k])

\* Lines 71-82: mesh.
FDInit ==
  fd = [pc |-> "fillFromAnalytic", mesh |-> BuildFieldMesh, f |-> None, f2 |-> None,
        isEqual |-> None, ids1 |-> <<>>, fPart1 |-> None, ids2 |-> <<>>, fPart2 |-> None,
        fPart1Cpy |-> None, fPart12 |-> None, delta |-> <<>>,
        integ1 |-> 0, integ1_bis |-> 0, integ2 |-> 0,
        fVecPart1 |-> None, cells |-> <<>>, icell |-> 0, cellMesh |-> None]

FDRest == UNCHANGED <<mpVars, daVars, fileVars, rm, ns, cap>>

\* Lines 94-97: f = mesh.fillFromAnalytic(...)
FD_FillFromAnalytic ==
  /\ fd.pc = "fillFromAnalytic"
  /\ fd' = [fd EXCEPT !.f = FieldFromAnalytic(fd.mesh, "MyField"), !.pc = "f2"]
  /\ FDRest

\* Lines 103-112: f2, filled on the same mesh, and the comparison printed.
FD_Field2 ==
  /\ fd.pc = "f2"
  /\ fd' = [fd EXCEPT !.f2 = FieldFromAnalytic(fd.mesh, "MyField2"),
                      !.isEqual = [value |-> isEqualWithoutConsideringStr(
                                                fd.f, FieldFromAnalytic(fd.mesh, "MyField2"))],
                      !.pc = "fPart1"]
  /\ FDRest

\* Lines 122-125: the part of f with values in [0, 5].
FD_Part1 ==
  /\ fd.pc = "fPart1"
  /\ fd' = [fd EXCEPT !.ids1 = findIdsInRange(fd.f.array, 0, 500),
                      !.fPart1 = buildSubPart(fd.f, findIdsInRange(fd.f.array, 0, 500)),
                      !.pc = "fPart2"]
  /\ FDRest

\* Lines 131-132: the part of f with values in [50, 1e300], a bound no
\* value reaches.
FD_Part2 ==
  /\ fd.pc = "fPart2"
  /\ fd' = [fd EXCEPT !.ids2 = findIdsInRange(fd.f.array, 5000, SeqMax(fd.f.array)),
                      !.fPart2 = buildSubPart(fd.f, findIdsInRange(fd.f.array, 5000,
                                                                   SeqMax(fd.f.array))),
                      !.pc = "fPart1Cpy"]
  /\ FDRest

\* Lines 142-144: a copy of fPart1 with its cells in the order of a file.
FD_Renumber ==
  /\ fd.pc = "fPart1Cpy"
  /\ fd' = [fd EXCEPT
              !.fPart1Cpy =
                Only({[fd.fPart1 EXCEPT
                         !.mesh.cells = RenumberCells(fd.fPart1.mesh.cells, oldToNew),
                         !.array = renumberInPlace(fd.fPart1.array, oldToNew)] :
                      oldToNew \in {sortCellsInMEDFileFrmt(fd.fPart1.mesh.cells)}}),
              !.pc = "substractInPlaceDM"]
  /\ FDRest

\* Lines 150-152: the copy minus fPart1, cell for cell.
FD_SubstractInPlaceDM ==
  /\ fd.pc = "substractInPlaceDM"
  /\ IF CanSubstractInPlaceDM(fd.fPart1Cpy, fd.fPart1)
     THEN fd' = [fd EXCEPT !.fPart1Cpy = [substractInPlaceDM(fd.fPart1Cpy, fd.fPart1) EXCEPT
                                            !.array = AbsArray(@)],
                           !.pc = "MergeFields"]
     ELSE fd' = [fd EXCEPT !.pc = "InterpKernelException@150"]
  /\ FDRest

\* Lines 163-164: fPart12 = MergeFields([fPart1, fPart2])
FD_MergeFields ==
  /\ fd.pc = "MergeFields"
  /\ fd' = [fd EXCEPT !.fPart12 = MergeFields(fd.fPart1, fd.fPart2), !.pc = "getValueOnMulti"]
  /\ FDRest

\* Lines 179-184: fPart12 and f evaluated at the centroids of fPart12.
FD_Evaluate ==
  /\ fd.pc = "getValueOnMulti"
  /\ fd' = [fd EXCEPT
              !.delta =
                Only({Only({AbsArray([q \in 1..Len(bary) |-> arr1[q] - arr2[q]]) :
                            arr1 \in {getValueOnMulti(fd.fPart12, bary)},
                            arr2 \in {getValueOnMulti(fd.f, bary)}}) :
                      bary \in {[c \in 1..Len(fd.fPart12.mesh.cells) |->
                                   Centroid(fd.fPart12.mesh, c)]}}),
              !.pc = "integral"]
  /\ FDRest

\* Lines 196-198: integ1 and integ1_bis.
FD_Integral ==
  /\ fd.pc = "integral"
  /\ fd' = [fd EXCEPT !.integ1 = FieldIntegral(fd.fPart12),
                      !.integ1_bis = ArraySum(fd.fPart12.array),
                      !.pc = "scale"]
  /\ FDRest

\* Line 202: fPart12.getMesh().scale([0., 0., 0.], 1.2)
FD_Scale ==
  /\ fd.pc = "scale"
  /\ fd' = [fd EXCEPT !.fPart12.mesh = scale(fd.fPart12.mesh, <<0, 0, 0>>, 12, 10),
                      !.pc = "integral2"]
  /\ FDRest

\* Lines 203-204: integ2.
FD_Integral2 ==
  /\ fd.pc = "integral2"
  /\ fd' = [fd EXCEPT !.integ2 = FieldIntegral(fd.fPart12), !.pc = "fVec"]
  /\ FDRest

\* Lines 212-225: fVec, its part on ids1, and the list cells.
FD_VecPart ==
  /\ fd.pc = "fVec"
  /\ fd' = [fd EXCEPT !.fVecPart1 = [buildSubPart(VectorFromAnalytic(fd.mesh), fd.ids1)
                                       EXCEPT !.name = "fVecPart1"],
                      !.cells = <<>>, !.icell = 0,
                      !.pc = "for icell"]
  /\ FDRest

\* Lines 227-229: the next cell of fPart1 as a mesh of its own.
FD_ForCell ==
  /\ fd.pc = "for icell"
  /\ fd.icell < Len(fd.fVecPart1.array)
  /\ fd' = [fd EXCEPT !.cellMesh = zipCoords(MeshPart(fd.fPart1.mesh, <<fd.icell>>)),
                      !.pc = "translate"]
  /\ FDRest

\* Lines 230-231: the cell is moved by its vector and stored.
FD_TranslateCell ==
  /\ fd.pc = "translate"
  /\ fd' = [fd EXCEPT !.cells = Append(@, TranslateMesh(fd.cellMesh,
                                                        fd.fVecPart1.array[fd.icell + 1])),
                      !.icell = @ + 1,
                      !.pc = "for icell"]
  /\ FDRest

\* Lines 234-236: the moved cells are merged and become the mesh of fPart1.
FD_MergeExploded ==
  /\ fd.pc = "for icell"
  /\ fd.icell = Len(fd.fVecPart1.array)
  /\ fd' = [fd EXCEPT !.fPart1.mesh = MergeAllUMeshes(fd.cells, Len(fd.cells)),
                      !.cellMesh = None, !.pc = "end"]
  /\ FDRest

FDNext ==
  \/ FD_FillFromAnalytic
  \/ FD_Field2
  \/ FD_Part1
  \/ FD_Part2
  \/ FD_Renumber
  \/ FD_SubstractInPlaceDM
  \/ FD_MergeFields
  \/ FD_Evaluate
  \/ FD_Integral
  \/ FD_Scale
  \/ FD_Integral2
  \/ FD_VecPart
  \/ FD_ForCell
  \/ FD_TranslateCell
  \/ FD_MergeExploded

\* C27: the cells of fPart12 have the unit volume, so its integral is the
\* sum of its values; after its mesh is scaled by 1.2 about the origin, the
\* values being the same, the integral is that sum times 1.2^3.  A sum in
\* hundredths is 1000 times smaller a number than the same quantity in units
\* of 1e-5, and 1.2^3 of it is 12^3 times the number.
C27_IntegralScalesWithVolume ==
  /\ fd.pc \notin {"fillFromAnalytic", "f2", "fPart1", "fPart2", "fPart1Cpy",
                   "substractInPlaceDM", "InterpKernelException@150", "MergeFields",
                   "getValueOnMulti", "integral"} =>
       fd.integ1 = 1000 * fd.integ1_bis
  /\ fd.pc \in {"fVec", "for icell", "translate", "end"} =>
       /\ fd.integ2 = fd.integ1_bis * (12 * 12 * 12)
       /\ fd.fPart12.array = fd.fPart1.array \o fd.fPart2.array
       /\ ArraySum(fd.fPart12.array) = fd.integ1_bis

\* Both integrals are computed, on a field that has cells of both parts and
\* a sum that is not zero.
C27_Witness ==
  /\ fd.pc = "fVec"
  /\ fd.integ1_bis > 0 /\ fd.integ2 > fd.integ1
  /\ Len(fd.fPart1.array) > 0 /\ Len(fd.fPart2.array) > 0

\* The stored entries (column, value) of row r (0-based) of a matrix.
CsrRow(A, r) ==
  [p \in 1..(A.indptr[r + 2] - A.indptr[r + 1]) |->
     <<A.indices[A.indptr[r + 1] + p], A.data[A.indptr[r + 1] + p]>>]

\* C28: the matrix a work unit returns for the item (m2Part, partToGlob),
\* partToGlob strictly increasing, has one row per cell of m2 and one column
\* per cell of m; its row partToGlob[k] holds the columns and values of row
\* k of the matrix of m against m2Part, its other rows are empty; its row
\* offsets are one more than the cells of m2, begin with 0, never decrease
\* and end with the number of stored entries of the matrix of the slice.
C28_WorkScattersSliceRows ==
  \A i \in DOMAIN results :
    (IsMatrix(results[i]) /\ \A k \in 1..(Len(workToDo[i].partToGlob) - 1) :
                               workToDo[i].partToGlob[k] < workToDo[i].partToGlob[k + 1]) =>
      Only({/\ R.shape = <<getNumberOfCells(m2), getNumberOfCells(m)>>
            /\ \A k \in 1..Len(ids) : CsrRow(R, ids[k]) = CsrRow(slice, k - 1)
            /\ \A g \in 0..(getNumberOfCells(m2) - 1) :
                 g \notin Range(ids) => CsrRow(R, g) = <<>>
            /\ Len(R.indptr) = getNumberOfCells(m2) + 1
            /\ R.indptr[1] = 0
            /\ \A g \in 1..(Len(R.indptr) - 1) : R.indptr[g] <= R.indptr[g + 1]
            /\ R.indptr[Len(R.indptr)] = Len(slice.data)
            /\ Len(R.data) = Len(slice.data) /\ Len(R.indices) = Len(slice.indices) :
            R \in {results[i]}, ids \in {workToDo[i].partToGlob},
            slice \in {getCrudeCSRMatrix(m, workToDo[i].part)}})

\* A work unit has returned the matrix of a slice that does not begin at
\* the first cell of m2 and that has stored entries.
C28_Witness ==
  \E i \in DOMAIN results :
    /\ IsMatrix(results[i])
    /\ Len(workToDo[i].partToGlob) > 1 /\ workToDo[i].partToGlob[1] > 0
    /\ Len(results[i].data) > 0
    /\ results[i].indptr[workToDo[i].partToGlob[1] + 2] > 0

\* C29: the aggregated array holds the squares in the order of the list:
\* its rows 4i..4i+3 are the corners of the square moved by translations[i];
\* cell i of the mesh, inserted from o2n[4i:4i+4], has 4 different nodes,
\* all of them rows of the array without duplicates (9 rows for the
\* translations of the script), and its k-th node lies at the k-th corner of
\* that square, moved by the [1, 1] of line 277: a unit square.
C29_CellsAreTheTranslatedSquares ==
  /\ DAAfter("squares") =>
       \A i \in 0..(Len(translations) - 1) :
         Chunk(squares_da, i) = AddVector(SquareCorners, translations[i + 1])
  /\ (DAAfter("mesh") /\ mesh # None) =>
       /\ \A c \in 1..Len(mesh.cells) :
            /\ Len(mesh.cells[c].conn) = 4
            /\ Cardinality(Range(mesh.cells[c].conn)) = 4
            /\ mesh.cells[c].conn = Chunk(o2n, c - 1)
            /\ \A k \in 1..4 :
                 /\ mesh.cells[c].conn[k] \in 0..(Len(mesh.coords) - 1)
                 /\ mesh.coords[mesh.cells[c].conn[k] + 1] =
                      AddVector(AddVector(SquareCorners, translations[c]), <<2, 2>>)[k]
       /\ translations = TutorialTranslations => Len(mesh.coords) = 9

\* The four cells are inserted, for the translations of the script.
C29_Witness ==
  /\ da_pc = "end"
  /\ translations = TutorialTranslations
  /\ Len(mesh.cells) = 4
  /\ mesh.cells[4].conn = Chunk(o2n, 3)

\* The name, time step and type of a stored step.
StepKey(sf) == <<sf.name, sf.time, sf.type>>

\* C30: every field merge_fields appends has as many tuples as the merged
\* mesh has cells on its level (a field on cells) or nodes (a field on
\* nodes), for every level of o2nML; checkConsistencyLight therefore never
\* raises, and the merged fields hold one field for each name, time step
\* and type of the files, and no second one.
C30_OneConsistentFieldPerStep ==
  /\ sm.pc # "InterpKernelException@196"
  /\ SMAfter("merge_fields") =>
       /\ \A k \in 1..Len(sm.mergeMLFields) :
            /\ sm.mergeMLFields[k].type = "ON_CELLS" =>
                 \A lev \in DOMAIN sm.o2nML :
                   Len(LoadCellValues(sm.mergeMLFields[k].data)) =
                     NbCellsAtLevel(sm.mergeMLMesh, lev)
            /\ sm.mergeMLFields[k].type = "ON_NODES" =>
                 Len(sm.mergeMLFields[k].data) = Len(sm.mergeMLMesh.coords)
            /\ \A lev \in DOMAIN sm.o2nML :
                 FieldConsistencyLight(sm.mergeMLFields[k].type,
                                       MergedArray(sm.fsML, sm.fsML[1][k], sm.o2nML, lev),
                                       sm.mergeMLMesh, lev)
       /\ \A k, k2 \in 1..Len(sm.mergeMLFields) :
            StepKey(sm.mergeMLFields[k]) = StepKey(sm.mergeMLFields[k2]) => k = k2
       /\ {StepKey(sm.mergeMLFields[k]) : k \in 1..Len(sm.mergeMLFields)} =
            UNION {{StepKey(sm.fsML[p][q]) : q \in 1..Len(sm.fsML[p])} : p \in 1..Len(sm.fsML)}
       /\ Cardinality(DOMAIN sm.o2nML) * Len(sm.fsML[1]) = Len(sm.mergeMLFields)

\* merge_fields has returned a field on cells and a field on nodes, merged
\* from two files that both hold cells.
C30_Witness ==
  /\ sm.pc = "mergeMLMesh.write"
  /\ \E k \in 1..Len(sm.mergeMLFields) : sm.mergeMLFields[k].type = "ON_CELLS"
  /\ \E k \in 1..Len(sm.mergeMLFields) : sm.mergeMLFields[k].type = "ON_NODES"
  /\ \A p \in 1..2 : NbCellsAtLevel(sm.msML[p], 0) > 0
  /\ NbCellsAtLevel(sm.mergeMLMesh, 0) =
       NbCellsAtLevel(sm.msML[1], 0) + NbCellsAtLevel(sm.msML[2], 0)

(***************************************************************************)
(* Specifications.                                                         *)
(***************************************************************************)
\* No MED file is written yet.
DiskInit == disk = [n \in FileNames |-> None] /\ io_log = <<>>

\* None of the scripts writing MED files is run.
FileIdle == DiskInit /\ LBIdle /\ LAIdle /\ SMIdle

\* Multiprocessing.py is run, the other scripts are not.
InitMP == MPInit /\ DAIdle /\ FileIdle /\ RMIdle /\ NSIdle /\ FDIdle /\ CapInit

SpecMP == InitMP /\ [][MPNext]_vars

\* DataArray.py is run, the other scripts are not.
InitDA == DAInit /\ MPIdle /\ FileIdle /\ RMIdle /\ NSIdle /\ FDIdle /\ CapInit

SpecDA == InitDA /\ [][DANext]_vars

\* One of the scripts writing MED files is run in an empty directory.
InitIO ==
  /\ MPIdle /\ DAIdle /\ RMIdle /\ NSIdle /\ FDIdle /\ CapInit /\ DiskInit
  /\ \/ LBInit /\ LAIdle /\ SMIdle
     \/ LBIdle /\ LAInit /\ SMIdle
     \/ LBIdle /\ LAIdle /\ SMInit

IONext == LBNext \/ LANext \/ SMNext

SpecIO == InitIO /\ [][IONext]_vars

InitRM == RMInit /\ MPIdle /\ DAIdle /\ FileIdle /\ NSIdle /\ FDIdle /\ CapInit

SpecRM == InitRM /\ [][RMNext]_vars

\* NumpyScipy.py is run, the other scripts are not.
InitNS == NSInit /\ MPIdle /\ DAIdle /\ FileIdle /\ RMIdle /\ FDIdle /\ CapInit

SpecNS == InitNS /\ [][NSNext]_vars

\* Field.py is run, the other scripts are not.
InitFD == FDInit /\ MPIdle /\ DAIdle /\ FileIdle /\ RMIdle /\ NSIdle /\ CapInit

SpecFD == InitFD /\ [][FDNext]_vars

====
